---- MODULE Spec2Model ----
(***************************************************************************)
(* A model of the skeleton project: the test-data builders                 *)
(* (tests/builders.py), the health endpoints                               *)
(* (challenge/presentation/api/v1/health.py), the application factory     *)
(* with its exception handlers (pindrop_challenge/presentation/main.py),   *)
(* the command line (challenge/__main__.py), the result helpers            *)
(* (challenge/domain/errors.py), the base models and value objects         *)
(* (domain/base_models.py) and the mock_env_vars fixture                   *)
(* (tests/conftest.py). Each part has its own specification; the variables *)
(* of the other parts stay at their idle values.                           *)
(*                                                                         *)
(* Python objects live in a heap: a dict is a heap cell, a value is either *)
(* a scalar or a reference to a heap cell, so that two names for one dict  *)
(* (aliasing) are two references to one cell.                              *)
(***************************************************************************)
EXTENDS Integers, Sequences, FiniteSets, TLC

VARIABLES
    made,       \* the builders made so far, each with its class and its _data
    kind,       \* the class of the builder under test (the factory called last)
    heap,       \* the dict objects allocated so far, by identity
    data,       \* identity of the dict bound to the builder's _data
    snaps,      \* identities of the dicts returned by build(), in order
    many,       \* identities of the dicts in the list build_many() returned last
    invoked,    \* the calls of the modifier made by the last build_many(), in order
    last,       \* the last call: operation, arguments, outcome
    nops,       \* number of calls made on the builder and its results
    environment,\* the argument create_app() was called with
    clock,      \* the reading of the system's UTC wall clock
    served,     \* the requests served so far, each with its response and log entries
    pending,    \* the requests received and not yet answered, each with its position
    app,        \* the application create_app() returned, as it was configured
    argv,       \* the command line the process was started with
    process,    \* what main() did: its exit, the logging set up, the server started
    result,     \* a Success or Error value an operation returned
    handled,    \* the last call on the result: callbacks called, outcome
    moneys,     \* the Money values made so far, in order
    paid,       \* the last Money operation: operands, outcome
    entity,     \* a model instance: its class and its fields
    touched,    \* the last operation on the instance and the calls counted
    ranges,     \* two DateRange values
    asked,      \* the last question put to the ranges and its answer
    environ,    \* os.environ of the test process
    fixture     \* the mock_env_vars fixture: its position and original_env

builderVars == <<made, kind, heap, data, snaps, many, invoked, last, nops>>
httpVars == <<app, environment, clock, served, pending>>
cliVars == <<argv, process>>
resultVars == <<result, handled>>
moneyVars == <<moneys, paid>>
entityVars == <<entity, touched>>
rangeVars == <<ranges, asked>>
envVars == <<environ, fixture>>
domainVars == <<cliVars, resultVars, moneyVars, entityVars, rangeVars, envVars>>

vars == <<made, kind, heap, data, snaps, many, invoked, last, nops, environment, clock, served, pending,
          app, argv, process, result, handled, moneys, paid, entity, touched, ranges, asked,
          environ, fixture>>

-----------------------------------------------------------------------------
(* Bounds of the exploration. *)

MaxOps == 4
MaxRequests == 3
MaxClock == 2
MaxBuilders == 2
MaxConcurrent == 2

-----------------------------------------------------------------------------
(* Python values. *)

PyStr(s) == [k |-> "str", s |-> s, r |-> 0]
PyInt(s) == [k |-> "int", s |-> s, r |-> 0]
PyFloat(s) == [k |-> "float", s |-> s, r |-> 0]
PyBool(s) == [k |-> "bool", s |-> s, r |-> 0]
PyNone == [k |-> "NoneType", s |-> "None", r |-> 0]
PyDateTime(s) == [k |-> "datetime", s |-> s, r |-> 0]
PyRef(i) == [k |-> "dict", s |-> "", r |-> i]

\* {}
EmptyDict == [key \in {} |-> PyNone]

\* d[key] = v on a dict
SetItem(d, key, v) == [x \in (DOMAIN d) \cup {key} |-> IF x = key THEN v ELSE d[x]]

\* datetime.isoformat() of an aware UTC datetime
IsoFormat(t) == t.s \o "+00:00"

\* the type has an isoformat attribute
HasIsoFormat(v) == v.k = "datetime"

\* the value supports item assignment, value[key] = x
IsDict(v) == v.k = "dict"

\* what a dict holds, one level of nested dicts resolved
Deep(h, id) ==
    [top |-> h[id],
     nested |-> [f \in {g \in DOMAIN h[id] : IsDict(h[id][g])} |-> h[h[id][f].r]]]

-----------------------------------------------------------------------------
(* The builders' default field sets (the __init__ methods). Cell 1 is the  *)
(* dict bound to _data; the dict literals nested in it are the next cells. *)

BuilderKinds ==
    {"Builder", "EntityBuilder", "ValueObjectBuilder", "RequestBuilder",
     "ResponseBuilder", "ConfigBuilder", "ErrorBuilder"}

\* str(uuid4()): some value the caller does not choose
Uuids == {"uuid-a", "uuid-b"}

\* datetime.now(timezone.utc) at the time the builder is made
BuilderNow == PyDateTime("2024-01-01T00:00:00")

JsonHeaders == SetItem(EmptyDict, "Content-Type", PyStr("application/json"))

Builder_init == <<EmptyDict>>

EntityBuilder_init(uuid) ==
    << [id |-> PyStr(uuid),
        name |-> PyStr("Test Entity"),
        description |-> PyStr("Test entity description"),
        created_at |-> PyStr(IsoFormat(BuilderNow)),
        updated_at |-> PyStr(IsoFormat(BuilderNow)),
        is_active |-> PyBool("True"),
        metadata |-> PyRef(2)],
       EmptyDict >>

ValueObjectBuilder_init ==
    << [value |-> PyNone, unit |-> PyNone, precision |-> PyInt("2")] >>

RequestBuilder_init ==
    << [method |-> PyStr("POST"),
        endpoint |-> PyStr("/api/v1/test"),
        headers |-> PyRef(2),
        body |-> PyRef(3),
        query_params |-> PyRef(4)],
       JsonHeaders, EmptyDict, EmptyDict >>

ResponseBuilder_init ==
    << [status_code |-> PyInt("200"),
        headers |-> PyRef(2),
        body |-> PyRef(3),
        elapsed |-> PyFloat("0.1")],
       JsonHeaders, EmptyDict >>

ConfigBuilder_init ==
    << [environment |-> PyStr("test"),
        debug |-> PyBool("True"),
        log_level |-> PyStr("DEBUG"),
        database_url |-> PyStr("sqlite:///:memory:"),
        cache_enabled |-> PyBool("False"),
        features |-> PyRef(2)],
       EmptyDict >>

ErrorBuilder_init ==
    << [type |-> PyStr("GenericError"),
        message |-> PyStr("An error occurred"),
        code |-> PyStr("ERR_GENERIC"),
        details |-> PyRef(2),
        timestamp |-> PyStr(IsoFormat(BuilderNow))],
       EmptyDict >>

\* the heaps a freshly made builder of class c can start from
InitialHeaps(c) ==
    CASE c = "Builder" -> {Builder_init}
      [] c = "EntityBuilder" -> {EntityBuilder_init(u) : u \in Uuids}
      [] c = "ValueObjectBuilder" -> {ValueObjectBuilder_init}
      [] c = "RequestBuilder" -> {RequestBuilder_init}
      [] c = "ResponseBuilder" -> {ResponseBuilder_init}
      [] c = "ConfigBuilder" -> {ConfigBuilder_init}
      [] c = "ErrorBuilder" -> {ErrorBuilder_init}

NoCall == [op |-> "__init__", key |-> "", val |-> PyNone, exc |-> "none", ret |-> "self"]

\* the application create_app(environment) returns: what FastAPI(...) was given
\* and the middleware _configure_cors added
_configure_cors_open(env) ==
    [allow_origins |-> <<"*">>,
     allow_credentials |-> TRUE,
     allow_methods |-> <<"*">>,
     allow_headers |-> <<"*">>]

_configure_cors(env) ==
    LET origins == IF env = "production"
                     THEN <<"https://yourdomain.com", "https://www.yourdomain.com">>
                     ELSE <<"*">>
    IN [allow_origins |-> origins,
        allow_credentials |-> TRUE,
        allow_methods |-> <<"*">>,
        allow_headers |-> <<"*">>]

\* None
NoUrl == "None"

create_app(env) ==
    [title |-> "Pindrop Challenge API",
     docs_url |-> IF env # "production" THEN "/api/docs" ELSE NoUrl,
     redoc_url |-> IF env # "production" THEN "/api/redoc" ELSE NoUrl,
     openapi_url |-> IF env # "production" THEN "/api/openapi.json" ELSE NoUrl,
     cors |-> _configure_cors(env)]

\* no builder is in use
NoBuilder ==
    /\ kind = "Builder"
    /\ heap = Builder_init
    /\ data = 1
    /\ made = <<[kind |-> kind, data |-> 1]>>
    /\ snaps = <<>>
    /\ many = <<>>
    /\ invoked = <<>>
    /\ last = NoCall
    /\ nops = 0

\* the parts of the project that are not exercised
Unused == <<>>
NoCli == argv = Unused /\ process = Unused
NoResult == result = Unused /\ handled = Unused
NoMoney == moneys = Unused /\ paid = Unused
NoEntity == entity = Unused /\ touched = Unused
NoRange == ranges = Unused /\ asked = Unused
NoEnv == environ = Unused /\ fixture = Unused
NoDomain == NoCli /\ NoResult /\ NoMoney /\ NoEntity /\ NoRange /\ NoEnv

\* no request has been served by the default application, `app = create_app()`
NoTraffic ==
    /\ environment = "development"
    /\ app = create_app(environment)
    /\ clock = 0
    /\ served = <<>>
    /\ pending = {}

BuilderInit ==
    /\ kind \in BuilderKinds
    /\ heap \in InitialHeaps(kind)
    /\ data = 1
    /\ made = <<[kind |-> kind, data |-> 1]>>
    /\ snaps = <<>>
    /\ many = <<>>
    /\ invoked = <<>>
    /\ last = NoCall
    /\ nops = 0
    /\ NoTraffic
    /\ NoDomain

-----------------------------------------------------------------------------
(* Arguments the caller passes: scalars of several types, a datetime, or a *)
(* dict the caller has just made (a new heap cell).                        *)

NewDict == [k |-> "dict", s |-> "new", r |-> 0]

\* the dict literal a caller passes for a dict argument
ArgDict == SetItem(EmptyDict, "k", PyInt("1"))

Scalars == {PyInt("1"), PyInt("2")}
ArgDateTime == PyDateTime("2025-06-01T12:00:00")

Alloc(h, v) == IF v = NewDict THEN Append(h, ArgDict) ELSE h
Resolved(h, v) == IF v = NewDict THEN PyRef(Len(h) + 1) ELSE v

\* a call: the operation, its key and value arguments (for build, the dict
\* returned), the exception raised and what was returned
Call(op, key, val, exc, ret) == [op |-> op, key |-> key, val |-> val, exc |-> exc, ret |-> ret]

\* self._data[field] = v on the heap
Store(h, d, field, v) == [h EXCEPT ![d] = SetItem(@, field, v)]

\* str(v) as an f-string formats a scalar
FormatStr(v) == v.s

\* the setter returns self: the heap becomes h2, nothing else of the builder changes
Return(op, key, val, h2) ==
    /\ nops < MaxOps
    /\ heap' = h2
    /\ last' = Call(op, key, val, "none", "self")
    /\ nops' = nops + 1
    /\ UNCHANGED <<made, kind, data, snaps, many, invoked>>
    /\ UNCHANGED <<httpVars, domainVars>>

\* the call raises exc before it stores anything
Raise(op, key, val, exc) ==
    /\ nops < MaxOps
    /\ last' = Call(op, key, val, exc, "none")
    /\ nops' = nops + 1
    /\ UNCHANGED <<made, kind, heap, data, snaps, many, invoked>>
    /\ UNCHANGED <<httpVars, domainVars>>

\* self._data[field] = v; return self
Assign(op, field, v) ==
    Return(op, field, Resolved(heap, v), Store(Alloc(heap, v), data, field, Resolved(heap, v)))

\* a nested setter that binds the field to a new dict holding the one item
AssignNested_replace(op, field, key, v) ==
    IF field \notin DOMAIN heap[data]
      THEN Raise(op, key, v, "KeyError")
      ELSE IF ~IsDict(heap[data][field])
      THEN Raise(op, key, v, "TypeError")
      ELSE Return(op, key, v,
                  Store(Append(heap, SetItem(EmptyDict, key, v)), data, field, PyRef(Len(heap) + 1)))

\* self._data[field][key] = v; return self
\* (the subscript of a missing field raises KeyError and item assignment on
\*  a value that is no dict raises TypeError, before anything is stored)
AssignNested(op, field, key, v) ==
    IF field \notin DOMAIN heap[data]
      THEN Raise(op, key, v, "KeyError")
      ELSE IF ~IsDict(heap[data][field])
      THEN Raise(op, key, v, "TypeError")
      ELSE Return(op, key, v, Store(heap, heap[data][field].r, key, v))

-----------------------------------------------------------------------------
(* Builder: the base class. *)

\* with_field is called with a new name, with the name of a nested dict
\* field, or with the name of a field a composite setter assigns
NestedFields == {"headers", "features"}
CompositeFields == {"code", "debug"}
FieldNames == {"x"} \cup ((NestedFields \cup CompositeFields) \cap DOMAIN heap[data])
FieldValues == Scalars
\* the arguments of the other setters: a scalar, or a dict where a dict is expected
SetterValues == {PyInt("1")}
DictValues == {NewDict}

\* a with_field that keeps a value already stored under the name (dict.setdefault)
with_field_setdefault(name, value) ==
    IF name \in DOMAIN heap[data]
      THEN Return("with_field", name, value, heap)
      ELSE Assign("with_field", name, value)

with_field(name, value) == Assign("with_field", name, value)

\* self._data.copy(): a new dict with the same keys and the same values
DictCopy(d) == [x \in DOMAIN d |-> d[x]]

build ==
    /\ nops < MaxOps
    /\ heap' = Append(heap, DictCopy(heap[data]))
    /\ snaps' = Append(snaps, Len(heap) + 1)
    /\ last' = Call("build", "", PyRef(Len(heap) + 1), "none", "dict")
    /\ nops' = nops + 1
    /\ UNCHANGED <<made, kind, data, many, invoked>>
    /\ UNCHANGED <<httpVars, domainVars>>

Counts == {0, 2}

\* the modifiers a caller passes: none; lambda data, i: {**data, "index": i};
\* an object with the same __call__ whose __len__ returns 0
Modifiers == {"None", "index", "empty_index"}

\* bool(modifier): None is false, a function is true, an object with
\* __len__ is true when its length is not 0
Truthy(modifier) == modifier = "index"

\* modifier(data, i): the dict the call returns
ApplyModifier(modifier, d, i) ==
    IF modifier \in {"index", "empty_index"} THEN SetItem(d, "index", PyInt(ToString(i))) ELSE d

\* before the loop: results = [] and no call of the modifier made
NoResults(h) == [heap |-> h, results |-> <<>>, invoked |-> <<>>]

\* the loop of build_many from index i on; each round appends to the heap
\* the dict build() returns and, when the modifier is called, the dict the
\* modifier returns
RECURSIVE BuildManyLoop(_, _, _, _)

\* a loop that runs once more than count
BuildManyLoop_inclusive(st, i, count, modifier) ==
    IF i > count THEN st
    ELSE LET h1 == Append(st.heap, DictCopy(st.heap[data]))
             snapshot == Len(h1)
         IN IF Truthy(modifier)
              THEN LET h2 == Append(h1, ApplyModifier(modifier, h1[snapshot], i))
                   IN BuildManyLoop([heap |-> h2,
                                     results |-> Append(st.results, Len(h2)),
                                     invoked |-> Append(st.invoked,
                                                        [data |-> snapshot, i |-> i, ret |-> Len(h2)])],
                                    i + 1, count, modifier)
              ELSE BuildManyLoop([heap |-> h1,
                                  results |-> Append(st.results, snapshot),
                                  invoked |-> st.invoked],
                                 i + 1, count, modifier)

BuildManyLoop(st, i, count, modifier) ==
    IF i >= count THEN st
    ELSE LET h1 == Append(st.heap, DictCopy(st.heap[data]))
             snapshot == Len(h1)
         IN IF Truthy(modifier)
              THEN LET h2 == Append(h1, ApplyModifier(modifier, h1[snapshot], i))
                   IN BuildManyLoop([heap |-> h2,
                                     results |-> Append(st.results, Len(h2)),
                                     invoked |-> Append(st.invoked,
                                                        [data |-> snapshot, i |-> i, ret |-> Len(h2)])],
                                    i + 1, count, modifier)
              ELSE BuildManyLoop([heap |-> h1,
                                  results |-> Append(st.results, snapshot),
                                  invoked |-> st.invoked],
                                 i + 1, count, modifier)

build_many(count, modifier) ==
    /\ nops < MaxOps
    /\ LET done == BuildManyLoop(NoResults(heap), 0, count, modifier)
       IN /\ heap' = done.heap
          /\ many' = done.results
          /\ invoked' = done.invoked
    /\ last' = Call("build_many", modifier, PyInt(ToString(count)), "none", "list")
    /\ nops' = nops + 1
    /\ UNCHANGED <<made, kind, data, snaps>>
    /\ UNCHANGED <<httpVars, domainVars>>

-----------------------------------------------------------------------------
(* EntityBuilder *)

with_id(v) == kind = "EntityBuilder" /\ Assign("with_id", "id", v)
with_name(v) == kind = "EntityBuilder" /\ Assign("with_name", "name", v)
with_description(v) == kind = "EntityBuilder" /\ Assign("with_description", "description", v)
with_metadata(v) == kind = "EntityBuilder" /\ Assign("with_metadata", "metadata", v)
inactive == kind = "EntityBuilder" /\ Assign("inactive", "is_active", PyBool("False"))

\* a created_at that formats its argument with str() and so takes any value
created_at_str(timestamp) ==
    /\ kind = "EntityBuilder"
    /\ Return("created_at", "created_at", timestamp,
              Store(heap, data, "created_at", PyStr(FormatStr(timestamp))))

\* timestamp.isoformat() is evaluated first: AttributeError when the value has none
created_at(timestamp) ==
    /\ kind = "EntityBuilder"
    /\ IF HasIsoFormat(timestamp)
         THEN Return("created_at", "created_at", timestamp,
                     Store(heap, data, "created_at", PyStr(IsoFormat(timestamp))))
         ELSE Raise("created_at", "created_at", Resolved(heap, timestamp), "AttributeError")

-----------------------------------------------------------------------------
(* ValueObjectBuilder *)

with_value(v) == kind = "ValueObjectBuilder" /\ Assign("with_value", "value", v)
with_unit(v) == kind = "ValueObjectBuilder" /\ Assign("with_unit", "unit", v)
with_precision(v) == kind = "ValueObjectBuilder" /\ Assign("with_precision", "precision", v)

-----------------------------------------------------------------------------
(* RequestBuilder *)

Endpoints == {"/api/v1/items"}
HeaderKeys == {"Content-Type", "X-Test"}
HeaderValues == {PyStr("text/plain")}
Tokens == {PyStr("my-token")}

\* two assignments, then return self
get(endpoint) ==
    /\ kind = "RequestBuilder"
    /\ Return("get", "endpoint", PyStr(endpoint),
              Store(Store(heap, data, "method", PyStr("GET")), data, "endpoint", PyStr(endpoint)))

post(endpoint) ==
    /\ kind = "RequestBuilder"
    /\ Return("post", "endpoint", PyStr(endpoint),
              Store(Store(heap, data, "method", PyStr("POST")), data, "endpoint", PyStr(endpoint)))

with_header(key, value) ==
    kind = "RequestBuilder" /\ AssignNested("with_header", "headers", key, value)

with_body(v) == kind = "RequestBuilder" /\ Assign("with_body", "body", v)
with_query(v) == kind = "RequestBuilder" /\ Assign("with_query", "query_params", v)

with_auth(token) ==
    /\ kind = "RequestBuilder"
    /\ AssignNested("with_auth", "headers", "Authorization",
                    PyStr("Bearer " \o FormatStr(token)))

-----------------------------------------------------------------------------
(* ResponseBuilder *)

Messages == {PyStr("Invalid input")}
\* an argument the caller leaves out, and the parameter's default taking its place
Omitted == [k |-> "omitted", s |-> "omitted", r |-> 0]
Default(arg, value) == IF arg = Omitted THEN value ELSE arg

StatusCodes == {Omitted, PyInt("500")}
SuccessData == {PyNone, NewDict}

with_status(v) == kind = "ResponseBuilder" /\ Assign("with_status", "status_code", v)

\* status_code = 200; body = {"success": True, "data": data}
success(d) ==
    /\ kind = "ResponseBuilder"
    /\ LET h1 == Alloc(heap, d)
           body == [success |-> PyBool("True"), data |-> Resolved(heap, d)]
           h2 == Append(h1, body)
       IN Return("success", "body", Resolved(heap, d),
                 Store(Store(h2, data, "status_code", PyInt("200")),
                       data, "body", PyRef(Len(h2))))

\* the body of error(): status_code = code; body = {"success": False, "error": message}
\* (status_code: int = 400)
ErrorBody(op, message, code) ==
    LET status_code == Default(code, PyInt("400"))
        body == [success |-> PyBool("False"), error |-> message]
        h2 == Append(heap, body)
    IN Return(op, code.s, message,
              Store(Store(h2, data, "status_code", status_code), data, "body", PyRef(Len(h2))))

error(message, code) == kind = "ResponseBuilder" /\ ErrorBody("error", message, code)

\* a not_found that leaves the status code to error()'s default
Response_not_found_default ==
    kind = "ResponseBuilder" /\ ErrorBody("not_found", PyStr("Resource not found"), Omitted)

Response_not_found ==
    kind = "ResponseBuilder" /\ ErrorBody("not_found", PyStr("Resource not found"), PyInt("404"))

unauthorized ==
    kind = "ResponseBuilder" /\ ErrorBody("unauthorized", PyStr("Unauthorized"), PyInt("401"))

-----------------------------------------------------------------------------
(* ConfigBuilder *)

FeatureNames == {"beta_ui"}
Booleans == {PyBool("True"), PyBool("False")}

Mode(op, env, debug, log_level) ==
    Return(op, "environment", PyStr(env),
           Store(Store(Store(heap, data, "environment", PyStr(env)),
                       data, "debug", debug),
                 data, "log_level", PyStr(log_level)))

\* a production() that leaves debugging on
production_debugging ==
    kind = "ConfigBuilder" /\ Mode("production", "production", PyBool("True"), "INFO")

production == kind = "ConfigBuilder" /\ Mode("production", "production", PyBool("False"), "INFO")
development == kind = "ConfigBuilder" /\ Mode("development", "development", PyBool("True"), "DEBUG")

with_database(v) == kind = "ConfigBuilder" /\ Assign("with_database", "database_url", v)
with_cache(v) == kind = "ConfigBuilder" /\ Assign("with_cache", "cache_enabled", v)

with_feature(name, enabled) ==
    kind = "ConfigBuilder" /\ AssignNested("with_feature", "features", name, enabled)

-----------------------------------------------------------------------------
(* ErrorBuilder *)

ErrorArgs == {PyStr("Order")}

\* type, code, message and details are assigned one after the other; the
\* details dict literal is a new cell
Named(op, type, code, message, details, arg) ==
    LET h2 == Append(heap, details)
    IN Return(op, "details", arg,
              Store(Store(Store(Store(h2, data, "type", PyStr(type)),
                                data, "code", PyStr(code)),
                          data, "message", PyStr(message)),
                    data, "details", PyRef(Len(h2))))

validation_error(field, message) ==
    /\ kind = "ErrorBuilder"
    /\ Named("validation_error", "ValidationError", "ERR_VALIDATION",
             "Validation failed for field: " \o FormatStr(field),
             [field |-> field, error |-> message], field)

\* a not_found that stops after its first assignment
Error_not_found_partial(resource) ==
    /\ kind = "ErrorBuilder"
    /\ Return("not_found", "details", resource, Store(heap, data, "type", PyStr("NotFoundError")))

Error_not_found(resource) ==
    /\ kind = "ErrorBuilder"
    /\ Named("not_found", "NotFoundError", "ERR_NOT_FOUND",
             FormatStr(resource) \o " not found",
             [resource |-> resource], resource)

permission_denied(action) ==
    /\ kind = "ErrorBuilder"
    /\ Named("permission_denied", "PermissionError", "ERR_PERMISSION",
             "Permission denied for action: " \o FormatStr(action),
             [action |-> action], action)

-----------------------------------------------------------------------------
(* The caller of build() and build_many() owns the dicts it got back and   *)
(* may change them: an item of the dict itself, or an item of a dict       *)
(* nested in it.                                                           *)

Range(q) == {q[i] : i \in DOMAIN q}
Returned == Range(snaps) \cup Range(many)

CallerKeys == {"k"}
CallerValues == {PyInt("9")}

\* snapshot[key] = v
mutate_item(id, key, v) ==
    /\ nops < MaxOps
    /\ id \in Returned
    /\ heap' = Store(heap, id, key, v)
    /\ last' = Call("mutate_item", key, PyRef(id), "none", "none")
    /\ nops' = nops + 1
    /\ UNCHANGED <<made, kind, data, snaps, many, invoked>>
    /\ UNCHANGED <<httpVars, domainVars>>

\* snapshot[field][key] = v
mutate_nested(id, field, key, v) ==
    /\ nops < MaxOps
    /\ id \in Returned
    /\ field \in DOMAIN heap[id]
    /\ IsDict(heap[id][field])
    /\ heap' = Store(heap, heap[id][field].r, key, v)
    /\ last' = Call("mutate_nested", field, PyRef(id), "none", "none")
    /\ nops' = nops + 1
    /\ UNCHANGED <<made, kind, data, snaps, many, invoked>>
    /\ UNCHANGED <<httpVars, domainVars>>

-----------------------------------------------------------------------------
(* The factory functions: each call constructs a builder, whose __init__   *)
(* evaluates its dict literals anew.                                       *)

\* a constructor whose nested defaults are dicts made once and shared by
\* every instance
Rebase_shared(cells, n) ==
    [i \in DOMAIN cells |->
       [f \in DOMAIN cells[i] |->
          IF IsDict(cells[i][f]) THEN PyRef(made[1].data + 1) ELSE cells[i][f]]]

\* the cells __init__ allocates for its dict literals when the heap holds
\* n cells already
Rebase(cells, n) ==
    [i \in DOMAIN cells |->
       [f \in DOMAIN cells[i] |->
          IF IsDict(cells[i][f]) THEN PyRef(cells[i][f].r + n) ELSE cells[i][f]]]

\* the factories a test calls next: the one of the class it is working
\* with, and response() next to request()
FactoryAfter(c) == {c} \cup (IF c = "RequestBuilder" THEN {"ResponseBuilder"} ELSE {})

\* entity(), value_object(), request(), response(), config(), error(), Builder()
factory(c) ==
    /\ nops < MaxOps
    /\ Len(made) < MaxBuilders
    /\ \E init \in InitialHeaps(c) : heap' = heap \o Rebase(init, Len(heap))
    /\ kind' = c
    /\ data' = Len(heap) + 1
    /\ made' = Append(made, [kind |-> c, data |-> Len(heap) + 1])
    /\ last' = Call("factory", c, PyNone, "none", "builder")
    /\ nops' = nops + 1
    /\ UNCHANGED <<snaps, many, invoked>>
    /\ UNCHANGED <<httpVars, domainVars>>

-----------------------------------------------------------------------------

BuilderNext ==
    \/ \E name \in FieldNames, value \in FieldValues : with_field(name, value)
    \/ build
    \/ \E count \in Counts, modifier \in Modifiers : build_many(count, modifier)
    \/ \E v \in SetterValues : with_id(v)
    \/ \E v \in SetterValues : with_name(v)
    \/ \E v \in SetterValues : with_description(v)
    \/ \E v \in DictValues : with_metadata(v)
    \/ inactive
    \/ \E v \in SetterValues \cup {ArgDateTime} : created_at(v)
    \/ \E v \in SetterValues \cup DictValues : with_value(v)
    \/ \E v \in SetterValues : with_unit(v)
    \/ \E v \in SetterValues : with_precision(v)
    \/ \E e \in Endpoints : get(e)
    \/ \E e \in Endpoints : post(e)
    \/ \E key \in HeaderKeys, value \in HeaderValues : with_header(key, value)
    \/ \E v \in DictValues : with_body(v)
    \/ \E v \in DictValues : with_query(v)
    \/ \E token \in Tokens : with_auth(token)
    \/ \E v \in SetterValues : with_status(v)
    \/ \E d \in SuccessData : success(d)
    \/ \E message \in Messages, code \in StatusCodes : error(message, code)
    \/ Response_not_found
    \/ unauthorized
    \/ production
    \/ development
    \/ \E v \in SetterValues : with_database(v)
    \/ \E v \in Booleans : with_cache(v)
    \/ \E name \in FeatureNames, enabled \in Booleans : with_feature(name, enabled)
    \/ \E field \in ErrorArgs, message \in Messages : validation_error(field, message)
    \/ \E resource \in ErrorArgs : Error_not_found(resource)
    \/ \E action \in ErrorArgs : permission_denied(action)
    \/ \E id \in Returned, key \in CallerKeys, v \in CallerValues : mutate_item(id, key, v)
    \/ \E id \in Returned : \E field \in DOMAIN heap[id], key \in CallerKeys, v \in CallerValues :
           mutate_nested(id, field, key, v)

SpecBuilder == BuilderInit /\ [][BuilderNext]_vars

\* a test that makes further builders while it works with the first
FactoryNext ==
    \/ \E c \in FactoryAfter(kind) : factory(c)
    \/ BuilderNext

SpecFactory == BuilderInit /\ [][FactoryNext]_vars

-----------------------------------------------------------------------------
(* The health endpoints (health.py). A handler reads the wall clock once   *)
(* and builds its response model from literals.                            *)

\* challenge.__version__
Version == "0.1.0"

\* fastapi.status
HTTP_200_OK == 200
HTTP_422_UNPROCESSABLE_ENTITY == 422
HTTP_500_INTERNAL_SERVER_ERROR == 500
\* the status the readiness docstring promises for "not ready"
HTTP_503_SERVICE_UNAVAILABLE == 503

\* sys.version, platform.platform(), platform.machine() of the process
SystemInfo ==
    [python_version |-> "3.12.0 (main)", platform |-> "Linux-6.1-x86_64", architecture |-> "x86_64"]

\* all(checks.values())
All(checks) == \A name \in DOMAIN checks : checks[name]

\* a liveness handler that keeps count: alive until a response has been sent
liveness_check_counting(now) == [alive |-> served = <<>>, timestamp |-> now]

\* a health handler that reports a failing component
health_check_degraded(now) ==
    [status |-> "degraded",
     version |-> Version,
     timestamp |-> now,
     environment |-> "development",
     system |-> SystemInfo,
     checks |-> [application |-> "unhealthy"]]

\* a health handler that reports the environment the application was made for
health_check_configured(now) ==
    [status |-> "healthy",
     version |-> Version,
     timestamp |-> now,
     environment |-> environment,
     system |-> SystemInfo,
     checks |-> [application |-> "healthy"]]

health_check(now) ==
    LET checks == [application |-> "healthy"]
    IN [status |-> "healthy",
        version |-> Version,
        timestamp |-> now,
        environment |-> "development",
        system |-> SystemInfo,
        checks |-> checks]

liveness_check(now) == [alive |-> TRUE, timestamp |-> now]

\* the dict literal of readiness checks
ReadinessChecks == [application |-> TRUE]

\* a readiness handler that reports ready when some check fails
Readiness_inverted(checks, now) ==
    [ready |-> ~All(checks), checks |-> checks, timestamp |-> now]

\* the readiness handler from `ready = all(checks.values())` on
Readiness(checks, now) ==
    LET ready == All(checks)
    IN [ready |-> ready, checks |-> checks, timestamp |-> now]

readiness_check(now) == Readiness(ReadinessChecks, now)

\* the router: path (under the /api/v1 prefix) -> handler, and the
\* status_code given in the route decorator
HealthPaths == {"/api/v1/health", "/api/v1/health/live", "/api/v1/health/ready"}

\* a router whose readiness route answers 503
RouteStatus_unavailable(path) ==
    IF path = "/api/v1/health/ready" THEN HTTP_503_SERVICE_UNAVAILABLE ELSE HTTP_200_OK

RouteStatus(path) == HTTP_200_OK

RouteHandler(path) ==
    CASE path = "/api/v1/health" -> "health_check"
      [] path = "/api/v1/health/live" -> "liveness_check"
      [] path = "/api/v1/health/ready" -> "readiness_check"

RouteBody(path, now) ==
    CASE path = "/api/v1/health" -> health_check(now)
      [] path = "/api/v1/health/live" -> liveness_check(now)
      [] path = "/api/v1/health/ready" -> readiness_check(now)

-----------------------------------------------------------------------------
(* The application factory (main.py): the exception handlers and the       *)
(* logging middleware. The middleware stack, outermost first, is the       *)
(* server-error layer (which holds the handler registered for Exception),  *)
(* log_requests, GZip, CORS, the exception layer (which holds the other    *)
(* handlers), the router.                                                  *)

Environments == {"development", "test", "staging", "production"}

PyException(cls, msg) == [k |-> cls, s |-> msg, r |-> 0]

\* exc.errors(): field errors; ctx holds what the validator attached
PlainErrors ==
    << [type |-> "int_parsing", loc |-> "body.age",
        msg |-> "Input should be a valid integer", ctx |-> PyNone] >>
CtxErrors ==
    << [type |-> "value_error", loc |-> "body.email",
        msg |-> "Value error, bad address", ctx |-> PyException("ValueError", "bad address")] >>

\* the exceptions an endpoint raises
Exceptions ==
    {[cls |-> c, msg |-> "validation failed", errors |-> e] :
        c \in {"RequestValidationError", "ValidationError"}, e \in {PlainErrors, CtxErrors}}
    \cup {[cls |-> "ValueError", msg |-> "boom", errors |-> <<>>],
          [cls |-> "RuntimeError", msg |-> "db password=hunter2", errors |-> <<>>]}

\* type(exc).__mro__, without object
Mro(cls) ==
    CASE cls = "RequestValidationError" -> <<"RequestValidationError", "ValidationException", "Exception">>
      [] cls = "ValidationError" -> <<"ValidationError", "ValueError", "Exception">>
      [] cls = "TypeError" -> <<"TypeError", "Exception">>
      [] cls = "ValueError" -> <<"ValueError", "Exception">>
      [] cls = "RuntimeError" -> <<"RuntimeError", "Exception">>

\* the handlers _register_error_handlers registers, by exception class
ExceptionHandlers ==
    [RequestValidationError |-> "validation_exception_handler",
     ValidationError |-> "pydantic_validation_handler",
     Exception |-> "unhandled_exception_handler"]

\* the handler the exception layer finds for a class: the first class of the
\* mro with a handler, the one for Exception left to the server-error layer
RECURSIVE LookupHandler(_)
LookupHandler(mro) ==
    IF mro = <<>> THEN "none"
    ELSE IF Head(mro) \in (DOMAIN ExceptionHandlers) \ {"Exception"}
    THEN ExceptionHandlers[Head(mro)]
    ELSE LookupHandler(Tail(mro))

\* json.dumps accepts the value
JsonSerializable(v) == v.k \in {"str", "int", "float", "bool", "NoneType"}

\* JSONResponse(content=...) renders its content when it is constructed:
\* TypeError when a value of the content is not JSON serializable
CanRender(errors) == \A i \in DOMAIN errors : JsonSerializable(errors[i].ctx)

Response(status, body, by) == [raised |-> "none", status |-> status, body |-> body, by |-> by]
Raised(cls, by) == [raised |-> cls, status |-> 0, body |-> <<>>, by |-> by]

validation_exception_handler(exc) ==
    IF CanRender(exc.errors)
      THEN Response(HTTP_422_UNPROCESSABLE_ENTITY,
                    [error |-> "validation_error",
                     message |-> "Request validation failed",
                     details |-> exc.errors],
                    "validation_exception_handler")
      ELSE Raised("TypeError", "validation_exception_handler")

pydantic_validation_handler(exc) ==
    IF CanRender(exc.errors)
      THEN Response(HTTP_422_UNPROCESSABLE_ENTITY,
                    [error |-> "validation_error",
                     message |-> "Data validation failed",
                     details |-> exc.errors],
                    "pydantic_validation_handler")
      ELSE Raised("TypeError", "pydantic_validation_handler")

\* a catch-all handler that puts str(exc) into the body
unhandled_exception_handler_leaky(exc) ==
    Response(HTTP_500_INTERNAL_SERVER_ERROR,
             [error |-> "internal_error", message |-> exc.msg],
             "unhandled_exception_handler")

unhandled_exception_handler(exc) ==
    Response(HTTP_500_INTERNAL_SERVER_ERROR,
             [error |-> "internal_error", message |-> "An unexpected error occurred"],
             "unhandled_exception_handler")

RunHandler(name, exc) ==
    CASE name = "validation_exception_handler" -> validation_exception_handler(exc)
      [] name = "pydantic_validation_handler" -> pydantic_validation_handler(exc)

\* log_requests: one entry before call_next, one after it has returned
Incoming(path) == [event |-> "Incoming request", method |-> "GET", path |-> path, status |-> 0]
Outgoing(path, status) == [event |-> "Response", method |-> "GET", path |-> path, status |-> status]

\* a response that came back through log_requests
Logged(path, exc, resp) ==
    [path |-> path, exc |-> exc, status |-> resp.status, body |-> resp.body, by |-> resp.by,
     log |-> <<Incoming(path), Outgoing(path, resp.status)>>]

\* an exception that passed through log_requests (call_next raised) and was
\* answered by the server-error layer with the handler for Exception
ServerError(path, exc, resp) ==
    [path |-> path, exc |-> exc, status |-> resp.status, body |-> resp.body, by |-> resp.by,
     log |-> <<Incoming(path)>>]

\* what becomes of a request whose endpoint raised exc
Dispatch(path, exc) ==
    LET name == LookupHandler(Mro(exc.cls))
    IN IF name = "none"
         THEN ServerError(path, exc, unhandled_exception_handler(exc))
         ELSE LET resp == RunHandler(name, exc)
              IN IF resp.raised = "none"
                   THEN Logged(path, exc, resp)
                   ELSE ServerError(path, exc,
                            unhandled_exception_handler([cls |-> resp.raised,
                                                         msg |-> "not JSON serializable",
                                                         errors |-> <<>>]))

NoException == [cls |-> "none", msg |-> "", errors |-> <<>>]

\* the path of a route that is not the health router's: one added to the
\* application create_app returned, whose endpoint can raise
OtherPaths == {"/api/v1/items"}

HttpInit ==
    /\ environment \in Environments
    /\ app = create_app(environment)
    /\ clock = 0
    /\ served = <<>>
    /\ pending = {}
    /\ NoBuilder
    /\ NoDomain

\* time passes
tick ==
    /\ clock < MaxClock
    /\ clock' = clock + 1
    /\ UNCHANGED <<app, environment, served, pending>>
    /\ UNCHANGED <<builderVars, domainVars>>

\* the wall clock is set back
set_back ==
    /\ clock > 0
    /\ clock' \in 0..(clock - 1)
    /\ UNCHANGED <<app, environment, served, pending>>
    /\ UNCHANGED <<builderVars, domainVars>>

\* GET of a health path
http_get(path) ==
    /\ Len(served) < MaxRequests
    /\ served' = Append(served,
                        Logged(path, NoException,
                               Response(RouteStatus(path), RouteBody(path, clock),
                                        RouteHandler(path))))
    /\ UNCHANGED <<app, environment, clock, pending>>
    /\ UNCHANGED <<builderVars, domainVars>>

\* GET of another path: the endpoint raises
http_get_raising(path, exc) ==
    /\ Len(served) < MaxRequests
    /\ served' = Append(served, Dispatch(path, exc))
    /\ UNCHANGED <<app, environment, clock, pending>>
    /\ UNCHANGED <<builderVars, domainVars>>

HttpNext ==
    \/ tick
    \/ set_back
    \/ \E path \in HealthPaths : http_get(path)
    \/ \E path \in OtherPaths, exc \in Exceptions : http_get_raising(path, exc)

SpecHttp == HttpInit /\ [][HttpNext]_vars

-----------------------------------------------------------------------------
(* The readiness handler as a function of the results of its checks: the   *)
(* probes it is written to await (database, cache, external_api) are       *)
(* inputs here, the rest of the handler and the route are as above.        *)

CheckNames == {"application", "database", "cache"}

readiness_probe(checks) ==
    /\ Len(served) < MaxRequests
    /\ served' = Append(served,
                        Logged("/api/v1/health/ready", NoException,
                               Response(RouteStatus("/api/v1/health/ready"),
                                        Readiness(checks, clock), "readiness_check")))
    /\ UNCHANGED <<app, environment, clock, pending>>
    /\ UNCHANGED <<builderVars, domainVars>>

ReadinessNext ==
    \/ tick
    \/ set_back
    \/ \E checks \in [CheckNames -> BOOLEAN] : readiness_probe(checks)

SpecReadiness == HttpInit /\ [][ReadinessNext]_vars

-----------------------------------------------------------------------------
(* Requests in flight together. log_requests awaits call_next, so another  *)
(* request can be received, handled or answered between the two log        *)
(* entries of one request; a handler is entered, then reads the clock and  *)
(* returns its response model.                                             *)

\* the number of requests received so far
Received == Len(served) + Cardinality(pending)

NoResponse == Raised("none", "none")

\* log_requests up to `await call_next(request)`
receive(path) ==
    /\ Received < MaxConcurrent
    /\ pending' = pending \cup
                    {[seq |-> Received + 1, path |-> path, pc |-> "call_next", resp |-> NoResponse]}
    /\ UNCHANGED <<app, environment, clock, served>>
    /\ UNCHANGED <<builderVars, domainVars>>

\* the router calls the handler of the path
enter_handler(req) ==
    /\ req \in pending
    /\ req.pc = "call_next"
    /\ pending' = (pending \ {req}) \cup {[req EXCEPT !.pc = RouteHandler(req.path)]}
    /\ UNCHANGED <<app, environment, clock, served>>
    /\ UNCHANGED <<builderVars, domainVars>>

\* the handler's return statement: it reads the clock and builds its model
handler_returns(req) ==
    /\ req \in pending
    /\ req.pc = RouteHandler(req.path)
    /\ pending' = (pending \ {req}) \cup
                    {[req EXCEPT !.pc = "responded",
                                 !.resp = Response(RouteStatus(req.path),
                                                   RouteBody(req.path, clock),
                                                   RouteHandler(req.path))]}
    /\ UNCHANGED <<app, environment, clock, served>>
    /\ UNCHANGED <<builderVars, domainVars>>

\* log_requests after call_next has returned
send_response(req) ==
    /\ req \in pending
    /\ req.pc = "responded"
    /\ pending' = pending \ {req}
    /\ served' = Append(served, Logged(req.path, NoException, req.resp) @@ [seq |-> req.seq])
    /\ UNCHANGED <<app, environment, clock>>
    /\ UNCHANGED <<builderVars, domainVars>>

ConcurrentNext ==
    \/ tick
    \/ set_back
    \/ \E path \in HealthPaths : receive(path)
    \/ \E req \in pending : enter_handler(req)
    \/ \E req \in pending : handler_returns(req)
    \/ \E req \in pending : send_response(req)

SpecConcurrent == HttpInit /\ [][ConcurrentNext]_vars

-----------------------------------------------------------------------------
(* Properties of the health endpoints and of the exception handlers. *)

Health == {i \in DOMAIN served : served[i].path = "/api/v1/health"}
Live == {i \in DOMAIN served : served[i].path = "/api/v1/health/live"}
Ready == {i \in DOMAIN served : served[i].path = "/api/v1/health/ready"}

\* C3: a GET of a health path is answered 200 with a body of the documented
\* shape, whatever was served before it.
C3_HealthPathsAnswer200 ==
    \A i \in DOMAIN served :
        served[i].path \in HealthPaths =>
            /\ served[i].status = 200
            /\ served[i].exc = NoException
            /\ i \in Health =>
                 /\ DOMAIN served[i].body =
                      {"status", "version", "timestamp", "environment", "system", "checks"}
                 /\ DOMAIN served[i].body.system = {"python_version", "platform", "architecture"}
                 /\ DOMAIN served[i].body.checks = {"application"}
            /\ i \in Live => DOMAIN served[i].body = {"alive", "timestamp"}
            /\ i \in Ready =>
                 /\ DOMAIN served[i].body = {"ready", "checks", "timestamp"}
                 /\ DOMAIN served[i].body.checks = {"application"}

\* all three health paths answered after a request that ended in a 500
C3_Witness ==
    /\ Len(served) = 3
    /\ served[1].status = 500
    /\ served[2].path \in HealthPaths
    /\ served[3].path = "/api/v1/health/ready" /\ served[3].status = 200

C5_ReadyIsAllChecks ==
    \A i \in Ready :
        LET body == served[i].body
        IN /\ body.ready = (\A n \in DOMAIN body.checks : body.checks[n] = TRUE)
           /\ "application" \in DOMAIN body.checks
           /\ body.checks["application"] = TRUE
           /\ body.ready = TRUE

C5_Witness == \E i \in Ready : served[i].body.ready /\ served[i].body.timestamp > 0

\* C6: a /health response carries status "healthy", the package version and
\* checks.application = "healthy"; a /health/live response carries alive =
\* true; neither request ends in an exception or another status.
C6_HealthyAndAlive ==
    /\ \A i \in Health :
         /\ served[i].body.status = "healthy"
         /\ served[i].body.version = Version
         /\ served[i].body.checks["application"] = "healthy"
         /\ served[i].exc = NoException /\ served[i].status = 200
    /\ \A i \in Live :
         /\ served[i].body.alive = TRUE
         /\ served[i].exc = NoException /\ served[i].status = 200

C6_Witness == Health # {} /\ Live # {}

\* the exception of request i has no handler more specific than the one for
\* Exception
Uncovered(i) ==
    /\ served[i].exc # NoException
    /\ \A c \in Range(Mro(served[i].exc.cls)) :
           c \notin {"RequestValidationError", "ValidationError"}

\* C7: an exception no more specific handler covers is answered 500 with
\* exactly {error: "internal_error", message: "An unexpected error
\* occurred"}; two such requests get the same body whatever they raised.
C7_OpaqueInternalError ==
    /\ \A i \in DOMAIN served :
         Uncovered(i) =>
             /\ served[i].status = 500
             /\ served[i].body =
                  [error |-> "internal_error", message |-> "An unexpected error occurred"]
    /\ \A i, j \in DOMAIN served :
         (Uncovered(i) /\ Uncovered(j)) => served[i].body = served[j].body

\* two requests that raised exceptions of different types and messages
C7_Witness ==
    \E i, j \in DOMAIN served :
        /\ Uncovered(i) /\ Uncovered(j)
        /\ served[i].exc.cls # served[j].exc.cls
        /\ served[i].exc.msg # served[j].exc.msg

\* C8 (as claimed): a request-validation failure and a model-validation
\* failure are answered 422 with error "validation_error", their message and
\* the field errors as details, never by the catch-all handler as a 500.
C8_ValidationIs422 ==
    \A i \in DOMAIN served :
        served[i].exc.cls \in {"RequestValidationError", "ValidationError"} =>
            /\ served[i].status = 422
            /\ served[i].by # "unhandled_exception_handler"
            /\ served[i].body.error = "validation_error"
            /\ served[i].body.details = served[i].exc.errors
            /\ served[i].body.message =
                 IF served[i].exc.cls = "RequestValidationError"
                   THEN "Request validation failed" ELSE "Data validation failed"

-----------------------------------------------------------------------------
(* Properties of the builders. *)

SimpleSetterOps ==
    {"with_field", "with_id", "with_name", "with_description", "with_metadata",
     "inactive", "with_value", "with_unit", "with_precision", "get", "post",
     "with_body", "with_query", "with_status", "success", "error", "not_found",
     "unauthorized", "production", "development", "with_database", "with_cache",
     "validation_error", "permission_denied"}
NestedSetterOps == {"with_header", "with_auth", "with_feature"}
SetterOps == SimpleSetterOps \cup NestedSetterOps \cup {"created_at"}
CallerOps == {"mutate_item", "mutate_nested"}

\* the field a nested setter writes into
NestedFieldOf(op) == IF op = "with_feature" THEN "features" ELSE "headers"

\* C1 (as claimed): a change the caller makes to a dict returned by build()
\* or build_many(), an item of a nested dict included, changes neither what
\* the builder holds (so no later build()) nor any other returned dict.
C1_CallerMutationIsLocal ==
    [][last'.op \in CallerOps =>
         /\ Deep(heap', data) = Deep(heap, data)
         /\ \A id \in Returned \ {last'.val.r} : Deep(heap', id) = Deep(heap, id)]_vars

\* C2 (as claimed): a setter called after build() leaves every dict that
\* build() returned before, its nested dicts included, as it was.
C2_SnapshotFixedAtCallTime ==
    [][last'.op \in SetterOps =>
         \A i \in DOMAIN snaps : Deep(heap', snaps[i]) = Deep(heap, snaps[i])]_vars

C10_WithFieldOverwrites ==
    [][/\ last'.op = "with_field" =>
            /\ last'.exc = "none" /\ last'.ret = "self"
            /\ data' = data
            /\ DOMAIN heap'[data] = (DOMAIN heap[data]) \cup {last'.key}
            /\ heap'[data][last'.key] = last'.val
            /\ \A f \in (DOMAIN heap[data]) \ {last'.key} : heap'[data][f] = heap[data][f]
            /\ snaps' = snaps
            /\ \A i \in DOMAIN snaps : heap'[snaps[i]] = heap[snaps[i]]
       /\ last'.op = "build" =>
            /\ snaps' = Append(snaps, last'.val.r)
            /\ last'.val.r \notin DOMAIN heap
            /\ heap'[last'.val.r] = heap[data]
            /\ data' = data /\ heap'[data] = heap[data]
            /\ \A i \in DOMAIN snaps : heap'[snaps[i]] = heap[snaps[i]]]_vars

\* with_field("x", 1), build(), with_field("x", 2), build() on a Builder
C10_Witness ==
    /\ kind = "Builder"
    /\ nops = 4
    /\ Len(snaps) = 2
    /\ last.op = "build"
    /\ heap[snaps[1]] = SetItem(EmptyDict, "x", PyInt("1"))
    /\ heap[snaps[2]] = SetItem(EmptyDict, "x", PyInt("2"))

\* the count build_many was last called with
CountOf(call) == CHOOSE n \in Counts : ToString(n) = call.val.s

\* C11 (as claimed): build_many(count, modifier) with a modifier calls the
\* modifier once for each index 0 .. count-1 in ascending order, each time
\* with a new snapshot of what the builder holds and that index, and returns
\* count elements, the i-th being what the modifier returned for index i.
C11_ModifierCalledPerIndex ==
    [][(last'.op = "build_many" /\ last'.key # "None") =>
         LET count == CountOf(last')
         IN /\ Len(invoked') = count
            /\ Len(many') = count
            /\ \A j \in 1..count :
                 /\ invoked'[j].i = j - 1
                 /\ invoked'[j].data \notin DOMAIN heap
                 /\ \A m \in 1..count : invoked'[m].data = invoked'[j].data => m = j
                 /\ heap'[invoked'[j].data] = heap[data]
                 /\ many'[j] = invoked'[j].ret
                 /\ heap'[many'[j]] = SetItem(heap[data], "index", PyInt(ToString(j - 1)))]_vars

\* C12: build_many(count) without a modifier returns count new dicts, each
\* holding what the builder holds (nested dicts included), none for count =
\* 0, without calling anything on them, and leaves what the builder holds and
\* the dicts returned earlier as they were.
C12_BuildManyCopies ==
    [][(last'.op = "build_many" /\ last'.key = "None") =>
         LET count == CountOf(last')
         IN /\ Len(many') = count
            /\ count = 0 => many' = <<>>
            /\ invoked' = <<>>
            /\ \A j \in 1..count :
                 /\ many'[j] \notin DOMAIN heap
                 /\ \A m \in 1..count : many'[m] = many'[j] => m = j
                 /\ heap'[many'[j]] = heap[data]
                 /\ Deep(heap', many'[j]) = Deep(heap, data)
            /\ data' = data
            /\ Deep(heap', data) = Deep(heap, data)
            /\ snaps' = snaps
            /\ \A id \in DOMAIN heap : heap'[id] = heap[id]
            /\ last'.exc = "none"]_vars

\* two dicts built from an entity builder after a setter, both with its id
C12_Witness ==
    /\ kind = "EntityBuilder"
    /\ Len(made) = 1
    /\ last.op = "build_many" /\ last.key = "None"
    /\ Len(many) = 2
    /\ heap[data].name = PyInt("1")
    /\ heap[many[1]].id = heap[data].id
    /\ heap[many[2]] = heap[many[1]]

\* the three operations of ErrorBuilder that name an error
NamedOps == {"validation_error", "not_found", "permission_denied"}

\* type, code, message and details as a build() on heap h sees them
ErrorFields(h) ==
    [type |-> h[data].type,
     code |-> h[data].code,
     message |-> h[data].message,
     details |-> IF IsDict(h[data].details) THEN h[h[data].details.r] ELSE <<>>]

\* what a named operation called with arg assigns
NamedFields(op, arg, details) ==
    CASE op = "validation_error" ->
           [type |-> PyStr("ValidationError"), code |-> PyStr("ERR_VALIDATION"),
            message |-> PyStr("Validation failed for field: " \o arg.s),
            details |-> details]
      [] op = "not_found" ->
           [type |-> PyStr("NotFoundError"), code |-> PyStr("ERR_NOT_FOUND"),
            message |-> PyStr(arg.s \o " not found"),
            details |-> [resource |-> arg]]
      [] op = "permission_denied" ->
           [type |-> PyStr("PermissionError"), code |-> PyStr("ERR_PERMISSION"),
            message |-> PyStr("Permission denied for action: " \o arg.s),
            details |-> [action |-> arg]]

\* a named operation leaves type, code, message and details as it assigns
\* them, all four together, and the timestamp as it was
NamedAssignsAll ==
    last'.op \in NamedOps =>
        /\ last'.exc = "none"
        /\ ErrorFields(heap') = NamedFields(last'.op, last'.val, ErrorFields(heap').details)
        /\ last'.op = "validation_error" =>
              /\ DOMAIN ErrorFields(heap').details = {"field", "error"}
              /\ ErrorFields(heap').details.field = last'.val
        /\ heap'[data].timestamp = heap[data].timestamp
        /\ DOMAIN heap'[data] = DOMAIN heap[data]

\* C13 (as claimed): on an ErrorBuilder a named operation assigns type,
\* code, message and details together, and no other operation of the builder
\* changes any of them, so that every build() sees all four from the last
\* named operation (or from the defaults).
C13_NoMixture ==
    [][kind = "ErrorBuilder" =>
         /\ NamedAssignsAll
         /\ last'.op \notin (NamedOps \cup CallerOps) => ErrorFields(heap') = ErrorFields(heap)]_vars

\* C13 (amended): as above, except that with_field(name, value) with name
\* one of the four replaces that field alone and keeps the other three;
\* build() and build_many() change none of them and return them as they are.
C13_NoMixtureButWithField ==
    [][kind = "ErrorBuilder" =>
         /\ NamedAssignsAll
         /\ last'.op \in {"build", "build_many"} => ErrorFields(heap') = ErrorFields(heap)
         /\ last'.op = "build" =>
               /\ heap'[last'.val.r].type = heap[data].type
               /\ heap'[last'.val.r].code = heap[data].code
               /\ heap'[last'.val.r].message = heap[data].message
               /\ heap'[heap'[last'.val.r].details.r] = ErrorFields(heap).details
         /\ last'.op = "with_field" =>
               /\ \A f \in {"type", "code", "message", "details"} \ {last'.key} :
                     ErrorFields(heap')[f] = ErrorFields(heap)[f]
               /\ heap'[data][last'.key] = last'.val]_vars

\* validation_error, build(), not_found("Order"), build(): the second dict
\* holds what not_found assigns and nothing of validation_error
C13_Witness ==
    /\ kind = "ErrorBuilder"
    /\ Len(made) = 1
    /\ Len(snaps) = 2
    /\ last.op = "build"
    /\ heap[snaps[1]].code = PyStr("ERR_VALIDATION")
    /\ heap[snaps[2]].type = PyStr("NotFoundError")
    /\ heap[snaps[2]].code = PyStr("ERR_NOT_FOUND")
    /\ heap[snaps[2]].message = PyStr("Order not found")
    /\ heap[heap[snaps[2]].details.r] = [resource |-> PyStr("Order")]

\* the four setters of ResponseBuilder that assign status_code and body
CompositeOps == {"success", "error", "not_found", "unauthorized"}

\* status_code and body as a build() on heap h sees them
ResponseFields(h) ==
    [status_code |-> h[data].status_code,
     body |-> IF IsDict(h[data].body) THEN h[h[data].body.r] ELSE <<>>]

\* the state error(message, code) leaves
ErrorFieldsOf(message, code) ==
    [status_code |-> code, body |-> [success |-> PyBool("False"), error |-> message]]

\* a composite setter assigns status_code and body together and leaves
\* headers and elapsed as they were
CompositeAssignsBoth ==
    /\ last'.op \in CompositeOps =>
          /\ last'.exc = "none" /\ last'.ret = "self"
          /\ heap'[data].headers = heap[data].headers
          /\ IsDict(heap[data].headers) =>
                heap'[heap[data].headers.r] = heap[heap[data].headers.r]
          /\ heap'[data].elapsed = heap[data].elapsed
          /\ DOMAIN heap'[data] = DOMAIN heap[data]
    /\ last'.op = "success" =>
          ResponseFields(heap') =
              [status_code |-> PyInt("200"),
               body |-> [success |-> PyBool("True"), data |-> last'.val]]
    /\ last'.op = "error" =>
          ResponseFields(heap') =
              ErrorFieldsOf(last'.val,
                            IF last'.key = "omitted" THEN PyInt("400") ELSE PyInt(last'.key))
    /\ last'.op = "not_found" =>
          ResponseFields(heap') = ErrorFieldsOf(PyStr("Resource not found"), PyInt("404"))
    /\ last'.op = "unauthorized" =>
          ResponseFields(heap') = ErrorFieldsOf(PyStr("Unauthorized"), PyInt("401"))

C15_NestedSettersMerge ==
    [][(last'.op \in NestedSetterOps /\ IsDict(heap[data][NestedFieldOf(last'.op)])) =>
         LET sub == heap[data][NestedFieldOf(last'.op)].r
         IN /\ last'.exc = "none" /\ last'.ret = "self"
            /\ DOMAIN heap'[sub] = (DOMAIN heap[sub]) \cup {last'.key}
            /\ heap'[sub][last'.key] = last'.val
            /\ \A key \in (DOMAIN heap[sub]) \ {last'.key} : heap'[sub][key] = heap[sub][key]
            /\ last'.op = "with_auth" =>
                  /\ last'.key = "Authorization"
                  /\ \E token \in Tokens : last'.val = PyStr("Bearer " \o token.s)
            /\ data' = data
            /\ heap'[data] = heap[data]
            /\ \A id \in (DOMAIN heap) \ {sub} : heap'[id] = heap[id]]_vars

\* with_header("X-Test", ...) then with_auth(...): the default Content-Type
\* and both new headers are in the builder's headers
C15_Witness ==
    /\ kind = "RequestBuilder"
    /\ last.op = "with_auth"
    /\ IsDict(heap[data].headers)
    /\ heap[heap[data].headers.r] =
         [x \in {"Content-Type", "X-Test", "Authorization"} |->
            CASE x = "Content-Type" -> PyStr("application/json")
              [] x = "X-Test" -> PyStr("text/plain")
              [] x = "Authorization" -> PyStr("Bearer my-token")]

\* the two setters of ConfigBuilder that name a mode
ModeOps == {"production", "development"}

\* environment, debug and log_level as a build() on heap h sees them
ModeFields(h) ==
    [environment |-> h[data].environment, debug |-> h[data].debug, log_level |-> h[data].log_level]

\* the triple each mode assigns
ModeTriple(op) ==
    IF op = "production"
      THEN [environment |-> PyStr("production"), debug |-> PyBool("False"), log_level |-> PyStr("INFO")]
      ELSE [environment |-> PyStr("development"), debug |-> PyBool("True"), log_level |-> PyStr("DEBUG")]

\* production() and development() assign their triple whatever was there,
\* change nothing when it is there already, and leave database_url,
\* cache_enabled and features (the mapping and its items) as they were
ModeAssignsTriple ==
    last'.op \in ModeOps =>
        /\ last'.exc = "none" /\ last'.ret = "self"
        /\ ModeFields(heap') = ModeTriple(last'.op)
        /\ ModeFields(heap) = ModeTriple(last'.op) => heap' = heap
        /\ last.op = last'.op => heap' = heap
        /\ \A f \in (DOMAIN heap[data]) \ {"environment", "debug", "log_level"} :
               heap'[data][f] = heap[data][f]
        /\ DOMAIN heap'[data] = DOMAIN heap[data]
        /\ \A id \in (DOMAIN heap) \ {data} : heap'[id] = heap[id]

\* C16 (as claimed): on a ConfigBuilder production() and development()
\* assign their triple, idempotently and leaving the other fields, and no
\* other call changes environment, debug or log_level, so that after any
\* sequence of calls the triple is that of the last of the two called.
C16_LastModeWins ==
    [][kind = "ConfigBuilder" =>
         /\ ModeAssignsTriple
         /\ last'.op \notin (ModeOps \cup CallerOps) => ModeFields(heap') = ModeFields(heap)]_vars

\* C16 (amended): as above, except that with_field(name, value) with name
\* one of the three replaces that field alone and keeps the other two.
C16_LastModeWinsButWithField ==
    [][kind = "ConfigBuilder" =>
         /\ ModeAssignsTriple
         /\ last'.op \notin (ModeOps \cup CallerOps \cup {"with_field"}) =>
               ModeFields(heap') = ModeFields(heap)
         /\ last'.op = "with_field" =>
               /\ \A f \in {"environment", "debug", "log_level"} \ {last'.key} :
                     ModeFields(heap')[f] = ModeFields(heap)[f]
               /\ heap'[data][last'.key] = last'.val]_vars

\* development(), build(), production(): the builder holds the production
\* triple, the dict built before holds the development triple
C16_Witness ==
    /\ kind = "ConfigBuilder"
    /\ Len(made) = 1
    /\ last.op = "production"
    /\ Len(snaps) = 1
    /\ heap[snaps[1]].environment = PyStr("development")
    /\ heap[snaps[1]].log_level = PyStr("DEBUG")
    /\ ModeFields(heap) = ModeTriple("production")
    /\ heap[data].database_url = PyStr("sqlite:///:memory:")

\* the dicts a dict refers to, itself included
Refs(h, ids) ==
    ids \cup UNION {{h[id][f].r : f \in {g \in DOMAIN h[id] : IsDict(h[id][g])}} : id \in ids}

RECURSIVE ReachFrom(_, _)
ReachFrom(h, ids) == IF Refs(h, ids) = ids THEN ids ELSE ReachFrom(h, Refs(h, ids))

\* every dict a builder's state consists of
StateOf(h, b) == ReachFrom(h, {b.data})

\* what a dict holds as a value: each nested dict replaced by its items
Content(h, id) ==
    [f \in DOMAIN h[id] |->
       IF IsDict(h[id][f]) THEN [k |-> "dict", items |-> h[h[id][f].r]] ELSE h[id][f]]

\* the documented default field set of class c
DefaultsOf(c) == {Content(init, 1) : init \in InitialHeaps(c)}

\* C17: a factory call returns a new builder holding the default field set
\* of its class in dicts no other builder and no returned dict refers to,
\* and changes nothing that exists; its first build() returns that field
\* set; no two builders ever share a dict; and a setter called on one
\* builder changes no dict of another.
C17_BuildersShareNothing ==
    [][/\ last'.op = "factory" =>
            /\ made' = Append(made, [kind |-> kind', data |-> data'])
            /\ StateOf(heap', made'[Len(made')]) \cap DOMAIN heap = {}
            /\ Content(heap', data') \in DefaultsOf(kind')
            /\ \A id \in DOMAIN heap : heap'[id] = heap[id]
       /\ (last.op = "factory" /\ last'.op = "build") =>
            Content(heap', last'.val.r) \in DefaultsOf(kind)
       /\ LET state == [i \in DOMAIN made' |-> StateOf(heap', made'[i])]
          IN \A i, j \in DOMAIN made' : i < j => state[i] \cap state[j] = {}
       /\ last'.op \in SetterOps =>
            \A i \in DOMAIN made :
                made[i].data # data =>
                    \A id \in StateOf(heap, made[i]) : heap'[id] = heap[id]]_vars

\* request().with_header("X-Test", ...), then request() again and build():
\* the first builder holds the new header, the dict built from the second
\* holds the defaults
C17_Witness ==
    /\ Len(made) = 2
    /\ made[1].kind = "RequestBuilder" /\ made[2].kind = "RequestBuilder"
    /\ IsDict(heap[made[1].data].headers)
    /\ "X-Test" \in DOMAIN heap[heap[made[1].data].headers.r]
    /\ last.op = "build"
    /\ Content(heap, last.val.r) = Content(RequestBuilder_init, 1)

\* a response without its timestamp
Timeless(body) == [f \in (DOMAIN body) \ {"timestamp"} |-> body[f]]

\* the status and body a GET of path is answered when it is the only request
AloneStatus(path) == HTTP_200_OK
AloneBody(path) ==
    CASE path = "/api/v1/health" ->
           [status |-> "healthy", version |-> Version, environment |-> "development",
            system |-> SystemInfo, checks |-> [application |-> "healthy"]]
      [] path = "/api/v1/health/live" -> [alive |-> TRUE]
      [] path = "/api/v1/health/ready" -> [ready |-> TRUE, checks |-> [application |-> TRUE]]

\* C18: however the handling of requests to the health paths is interleaved,
\* each is answered with the status and, apart from the timestamp, the body
\* it is answered when it is the only request; so two requests to one path
\* get the same answer, whichever was received or answered first.
C18_AnswersIndependentOfInterleaving ==
    /\ \A i \in DOMAIN served :
         /\ served[i].status = AloneStatus(served[i].path)
         /\ Timeless(served[i].body) = AloneBody(served[i].path)
         /\ "timestamp" \in DOMAIN served[i].body
    /\ \A req \in pending :
         req.pc = "responded" =>
             /\ req.resp.status = AloneStatus(req.path)
             /\ Timeless(req.resp.body) = AloneBody(req.path)
    /\ \A i, j \in DOMAIN served :
         served[i].path = served[j].path =>
             /\ served[i].status = served[j].status
             /\ Timeless(served[i].body) = Timeless(served[j].body)

\* two requests to one path in flight together, the one received second
\* answered first, their handlers reading the clock at different times
C18_Witness ==
    /\ Len(served) = 2
    /\ served[1].seq = 2 /\ served[2].seq = 1
    /\ served[1].path = served[2].path
    /\ served[1].body.timestamp # served[2].body.timestamp

\* C19 (as claimed): of two responses of the health paths, the one to the
\* later request (received after the earlier was answered) carries a
\* timestamp that is not earlier.
C19_TimestampsNeverGoBack ==
    \A i, j \in DOMAIN served :
        (i < j /\ served[i].path \in HealthPaths /\ served[j].path \in HealthPaths) =>
            served[i].body.timestamp <= served[j].body.timestamp

\* C20 (as claimed): for every request, one ending in a 422 or a 500
\* included, the log holds the method-and-path entry followed by the
\* response-status entry with the status of the response.
C20_BothLogEntries ==
    \A i \in DOMAIN served :
        served[i].log = <<Incoming(served[i].path), Outgoing(served[i].path, served[i].status)>>

-----------------------------------------------------------------------------
(* Properties of the application factory's configuration. *)

ProductionOrigins == <<"https://yourdomain.com", "https://www.yourdomain.com">>

\* C21: the application is configured with the wildcard origin for every
\* environment other than "production" and with the two-origin allow-list
\* exactly for "production"; its docs, redoc and OpenAPI URLs are disabled
\* exactly for "production".
C21_CorsAndDocsFollowEnvironment ==
    /\ app.cors.allow_origins \in {<<"*">>, ProductionOrigins}
    /\ (app.cors.allow_origins = ProductionOrigins) <=> (environment = "production")
    /\ (app.cors.allow_origins = <<"*">>) <=> (environment # "production")
    /\ (app.docs_url = NoUrl) <=> (environment = "production")
    /\ (app.redoc_url = NoUrl) <=> (environment = "production")
    /\ (app.openapi_url = NoUrl) <=> (environment = "production")

\* the application made for production has served a request
C21_Witness ==
    /\ environment = "production"
    /\ app.cors.allow_origins = ProductionOrigins
    /\ app.docs_url = NoUrl /\ app.openapi_url = NoUrl
    /\ served # <<>>

-----------------------------------------------------------------------------
(* The command line (challenge/__main__.py). A command line is what the    *)
(* user typed after `python -m challenge`: the options of the top parser,  *)
(* then at most one word for the subcommand, then the options of the api   *)
(* parser. An option is the sequence of the values typed for it: empty     *)
(* when the option is left out, one value otherwise. The value of --port   *)
(* is the text typed, a sequence of characters.                            *)

\* the option's value, or the default of its parameter when it is left out
Given(option, default) == IF option = <<>> THEN default ELSE option[1]

\* the choices of --log-level
LogLevels == {"DEBUG", "INFO", "WARNING", "ERROR", "CRITICAL"}

Digits == <<"0", "1", "2", "3", "4", "5", "6", "7", "8", "9">>

DigitValue(c) == (CHOOSE i \in DOMAIN Digits : Digits[i] = c) - 1

\* the text is accepted by int(): decimal digits only
IsDecimal(text) ==
    /\ text # <<>>
    /\ \A i \in DOMAIN text : \E d \in DOMAIN Digits : Digits[d] = text[i]

\* int(text) of a decimal text
RECURSIVE int(_)
int(text) ==
    IF text = <<>> THEN 0
    ELSE 10 * int(SubSeq(text, 1, Len(text) - 1)) + DigitValue(text[Len(text)])

\* the command lines tried
CommandLines ==
    [version : BOOLEAN,
     log_level : {<<>>} \cup {<<level>> : level \in LogLevels \cup {"TRACE"}},
     command : {<<>>, <<"api">>, <<"worker">>},
     host : {<<>>, <<"127.0.0.1">>},
     port : {<<>>, << <<"8", "0", "8", "0">> >>, << <<"9", "0">> >>, << <<"h", "t", "t", "p">> >>},
     reload : BOOLEAN]

\* the process has not exited
NoExit == [kind |-> "none", code |-> 0]
SystemExit(code) == [kind |-> "SystemExit", code |-> code]
ReturnCode(code) == [kind |-> "return", code |-> code]

\* parser.parse_args(): the Namespace, or the exit argparse takes. --version
\* (given first) prints and exits 0; a value outside the choices, an unknown
\* subcommand, an option of the api parser without the subcommand, or a
\* port int() rejects is a usage error, exit status 2.
parse_args(line) ==
    IF line.version THEN [exit |-> SystemExit(0)]
    ELSE IF line.log_level # <<>> /\ line.log_level[1] \notin LogLevels
      THEN [exit |-> SystemExit(2)]
    ELSE IF line.command = <<>>
      THEN IF line.host # <<>> \/ line.port # <<>> \/ line.reload
             THEN [exit |-> SystemExit(2)]
             ELSE [exit |-> NoExit,
                   log_level |-> Given(line.log_level, "INFO"),
                   command |-> "None"]
    ELSE IF line.command[1] # "api" THEN [exit |-> SystemExit(2)]
    ELSE IF line.port # <<>> /\ ~IsDecimal(line.port[1]) THEN [exit |-> SystemExit(2)]
    ELSE [exit |-> NoExit,
          log_level |-> Given(line.log_level, "INFO"),
          command |-> "api",
          host |-> Given(line.host, "0.0.0.0"),
          port |-> IF line.port = <<>> THEN 8000 ELSE int(line.port[1]),
          reload |-> line.reload]

\* logging.basicConfig(level=getattr(logging, level.upper()), ...)
setup_logging(level) == [level |-> level]

\* a run_api that ignores what it is given
run_api_defaults(host, port, reload) ==
    [app |-> "challenge.api.main:app", host |-> "0.0.0.0", port |-> 8000,
     reload |-> FALSE, log_level |-> "info"]

\* run_api, each argument given or left out: the call uvicorn.run(app, host=..., port=..., reload=..., log_level="info")
run_api(host, port, reload) ==
    [app |-> "challenge.api.main:app",
     host |-> Given(host, "0.0.0.0"),
     port |-> Given(port, 8000),
     reload |-> Given(reload, FALSE),
     log_level |-> "info"]

\* bool(args.command)
CommandGiven(command) == command \notin {"None", ""}

NotRun == [exit |-> NoExit, logging |-> "unset", server |-> <<>>, help |-> FALSE]

CliInit ==
    /\ argv \in CommandLines
    /\ process = NotRun
    /\ NoBuilder /\ NoTraffic
    /\ NoResult /\ NoMoney /\ NoEntity /\ NoRange /\ NoEnv

\* main(), from parse_args to its return; uvicorn.run returns when the
\* server is stopped
main ==
    /\ process = NotRun
    /\ LET args == parse_args(argv)
       IN IF args.exit # NoExit
            THEN process' = [NotRun EXCEPT !.exit = args.exit]
            ELSE LET logging == setup_logging(args.log_level)
                 IN IF args.command = "api"
                      THEN process' = [exit |-> ReturnCode(0),
                                       logging |-> logging,
                                       server |-> <<run_api(<<args.host>>, <<args.port>>, <<args.reload>>)>>,
                                       help |-> FALSE]
                      ELSE IF ~CommandGiven(args.command)
                      THEN process' = [exit |-> ReturnCode(0),
                                       logging |-> logging,
                                       server |-> <<run_api(<<>>, <<>>, <<>>)>>,
                                       help |-> FALSE]
                      ELSE process' = [exit |-> ReturnCode(1),
                                       logging |-> logging,
                                       server |-> <<>>,
                                       help |-> TRUE]
    /\ UNCHANGED argv
    /\ UNCHANGED <<builderVars, httpVars, resultVars, moneyVars, entityVars, rangeVars, envVars>>

CliNext == main

SpecCli == CliInit /\ [][CliNext]_vars

\* the command line parses: parse_args returns a Namespace
Parses == parse_args(argv).exit = NoExit

-----------------------------------------------------------------------------
(* Result values and their helpers (challenge/domain/errors.py). A result  *)
(* is an object with an identity; a callback is a callable object, which   *)
(* like every object has a truth value.                                    *)

SuccessClasses ==
    {"CreateEntitySuccess", "GetEntitySuccess", "UpdateEntitySuccess", "DeleteEntitySuccess"}

\* the error classes and the literal each has for error_code
ErrorCodes ==
    [ValidationError |-> "VALIDATION_ERROR",
     NotFoundError |-> "NOT_FOUND",
     ConflictError |-> "CONFLICT",
     UnauthorizedError |-> "UNAUTHORIZED",
     ForbiddenError |-> "FORBIDDEN",
     BusinessRuleViolationError |-> "BUSINESS_RULE_VIOLATION",
     ExternalServiceError |-> "EXTERNAL_SERVICE_ERROR",
     RateLimitError |-> "RATE_LIMIT_EXCEEDED"]

\* the base each result class is derived from
ResultBase(cls) == IF cls \in SuccessClasses THEN "Success" ELSE "Error"

\* an instance of a result class; id is the object's identity
NewSuccess(id, cls) ==
    [id |-> id, cls |-> cls, success |-> TRUE, error_code |-> "", message |-> ""]
NewError(id, cls, message) ==
    [id |-> id, cls |-> cls, success |-> FALSE, error_code |-> ErrorCodes[cls], message |-> message]

ErrorMessages == {"not there", "try later"}

\* the results an operation returns (object 1) and the defaults a caller
\* holds for unwrap_or (object 2)
Results ==
    {NewSuccess(1, cls) : cls \in SuccessClasses}
    \cup {NewError(1, cls, message) : cls \in DOMAIN ErrorCodes, message \in ErrorMessages}
Defaults == {NewSuccess(2, cls) : cls \in {"GetEntitySuccess", "DeleteEntitySuccess"}}

\* isinstance(result, Success), isinstance(result, Error)
is_success(r) == ResultBase(r.cls) = "Success"
is_error(r) == ResultBase(r.cls) = "Error"

\* callbacks: functions, and a callable object whose bool() is False (one
\* with a __len__ that returns 0, say); None for a callback left out
NoCallback == [name |-> "None", truth |-> FALSE]
OnSuccess == {[name |-> "to_dict", truth |-> TRUE], [name |-> "entity_id", truth |-> TRUE]}
OnError ==
    {NoCallback, [name |-> "to_problem", truth |-> TRUE], [name |-> "EmptyHandlers()", truth |-> FALSE]}

\* callback(result): the call made and the value it returns
CallOf(callback, r) == [callback |-> callback.name, arg |-> r.id]
ValueOf(callback, r) == [id |-> 3, cls |-> callback.name, of |-> r.id]

NoValue == [id |-> 0, cls |-> "None", of |-> 0]
NoError == [cls |-> "none", msg |-> ""]
RuntimeError(msg) == [cls |-> "RuntimeError", msg |-> msg]

handle_result(r, on_success, on_error) ==
    IF is_success(r)
      THEN [calls |-> <<CallOf(on_success, r)>>, raised |-> NoError, ret |-> ValueOf(on_success, r)]
    ELSE IF on_error.truth
      THEN [calls |-> <<CallOf(on_error, r)>>, raised |-> NoError, ret |-> ValueOf(on_error, r)]
    ELSE [calls |-> <<>>, raised |-> RuntimeError("Operation failed: " \o r.message), ret |-> NoValue]

unwrap(r) ==
    IF is_success(r)
      THEN [calls |-> <<>>, raised |-> NoError, ret |-> r]
      ELSE [calls |-> <<>>, raised |-> RuntimeError("Cannot unwrap error: " \o r.message), ret |-> NoValue]

\* an unwrap_or that answers the default for every result
unwrap_or_default(r, default) == [calls |-> <<>>, raised |-> NoError, ret |-> default]

unwrap_or(r, default) ==
    IF is_success(r)
      THEN [calls |-> <<>>, raised |-> NoError, ret |-> r]
      ELSE [calls |-> <<>>, raised |-> NoError, ret |-> default]

NotCalled ==
    [op |-> "none", on_success |-> NoCallback, on_error |-> NoCallback, default |-> NoValue,
     calls |-> <<>>, raised |-> NoError, ret |-> NoValue]

ResultInit ==
    /\ result \in Results
    /\ handled = NotCalled
    /\ NoBuilder /\ NoTraffic
    /\ NoCli /\ NoMoney /\ NoEntity /\ NoRange /\ NoEnv

\* what a call leaves behind: its arguments and its outcome
Outcome(op, on_success, on_error, default, outcome) ==
    /\ handled' = [op |-> op, on_success |-> on_success, on_error |-> on_error,
                   default |-> default,
                   calls |-> outcome.calls, raised |-> outcome.raised, ret |-> outcome.ret]
    /\ UNCHANGED result
    /\ UNCHANGED <<builderVars, httpVars, cliVars, moneyVars, entityVars, rangeVars, envVars>>

call_handle_result(on_success, on_error) ==
    Outcome("handle_result", on_success, on_error, NoValue,
            handle_result(result, on_success, on_error))

call_unwrap == Outcome("unwrap", NoCallback, NoCallback, NoValue, unwrap(result))

call_unwrap_or(default) ==
    Outcome("unwrap_or", NoCallback, NoCallback, default, unwrap_or(result, default))

ResultNext ==
    \/ \E on_success \in OnSuccess, on_error \in OnError : call_handle_result(on_success, on_error)
    \/ call_unwrap
    \/ \E default \in Defaults : call_unwrap_or(default)

SpecResult == ResultInit /\ [][ResultNext]_vars

\* C23 (as claimed): handle_result calls exactly one callback, once, and
\* returns its value: on_success for a success, on_error for an error when
\* on_error was given; for an error with no on_error it calls nothing and
\* raises RuntimeError. A result is a success or an error and never both.
C23_OneCallbackOnce ==
    /\ is_success(result) # is_error(result)
    /\ handled.op = "handle_result" =>
         /\ is_success(result) =>
              /\ handled.calls = <<CallOf(handled.on_success, result)>>
              /\ handled.ret = ValueOf(handled.on_success, result)
              /\ handled.raised = NoError
         /\ (is_error(result) /\ handled.on_error # NoCallback) =>
              /\ handled.calls = <<CallOf(handled.on_error, result)>>
              /\ handled.ret = ValueOf(handled.on_error, result)
              /\ handled.raised = NoError
         /\ (is_error(result) /\ handled.on_error = NoCallback) =>
              /\ handled.calls = <<>>
              /\ handled.raised.cls = "RuntimeError"

\* C24: unwrap returns the very object it was given when that is a
\* success and raises RuntimeError when it is an error; unwrap_or never
\* raises, returns what unwrap returns when unwrap does not raise, and the
\* default otherwise. Neither calls anything.
C24_UnwrapAndUnwrapOr ==
    /\ handled.op = "unwrap" =>
         /\ is_success(result) => (handled.ret = result /\ handled.raised = NoError)
         /\ is_error(result) => handled.raised.cls = "RuntimeError"
    /\ handled.op = "unwrap_or" =>
         /\ handled.raised = NoError
         /\ handled.calls = <<>>
         /\ unwrap(result).raised = NoError => handled.ret = unwrap(result).ret
         /\ unwrap(result).raised # NoError => handled.ret = handled.default
         /\ is_success(result) => handled.ret = result

\* unwrap_or has answered an error with the default
C24_Witness ==
    /\ handled.op = "unwrap_or"
    /\ is_error(result)
    /\ handled.ret = handled.default
    /\ handled.ret.id = 2

-----------------------------------------------------------------------------
(* Money (domain/base_models.py, the same in both packages). amount is a   *)
(* Python float, an IEEE 754 double with a significand of 53 bits: the     *)
(* result of + and - is the exact result rounded to the nearest double,    *)
(* ties to the even significand. An integer amount is kept as a sign and   *)
(* two limbs, magnitude = hi * Limb + lo.                                  *)

SignificandBits == 53
LimbBits == 27
Limb == 2^LimbBits

\* the float of a small integer
Float(n) == [neg |-> n < 0, hi |-> 0, lo |-> IF n < 0 THEN 0 - n ELSE n]

\* 2.0 ** 53, the first double whose successor is 2 away
TwoTo53 == [neg |-> FALSE, hi |-> 2^(SignificandBits - LimbBits), lo |-> 0]

IsZero(x) == x.hi = 0 /\ x.lo = 0

\* x < y and x >= 0 on floats
MagnitudeLess(x, y) == x.hi < y.hi \/ (x.hi = y.hi /\ x.lo < y.lo)
FloatLess(x, y) ==
    CASE x.neg /\ ~y.neg -> ~(IsZero(x) /\ IsZero(y))
      [] ~x.neg /\ y.neg -> FALSE
      [] x.neg /\ y.neg -> MagnitudeLess(y, x)
      [] OTHER -> MagnitudeLess(x, y)
AtLeastZero(x) == ~x.neg \/ IsZero(x)

\* the distance between neighbouring doubles at a magnitude with this hi limb
RECURSIVE Ulp(_)
Ulp(hi) == IF hi < 2^(SignificandBits - LimbBits) THEN 1 ELSE 2 * Ulp(hi \div 2)

\* the exact magnitude hi * Limb + lo rounded to the nearest double
Round(neg, hi, lo) ==
    LET ulp == Ulp(hi)
        q == lo \div ulp
        r == lo % ulp
        up == (2 * r > ulp) \/ (2 * r = ulp /\ q % 2 = 1)
        kept == (IF up THEN q + 1 ELSE q) * ulp
    IN IF kept = Limb THEN [neg |-> neg, hi |-> hi + 1, lo |-> 0]
                      ELSE [neg |-> neg, hi |-> hi, lo |-> kept]

\* magnitudes added and subtracted exactly, then rounded
MagnitudeSum(neg, x, y) ==
    LET lo == x.lo + y.lo
    IN Round(neg, x.hi + y.hi + (lo \div Limb), lo % Limb)
MagnitudeDifference(neg, x, y) ==
    LET borrow == IF x.lo < y.lo THEN 1 ELSE 0
    IN Round(neg, x.hi - y.hi - borrow, x.lo - y.lo + borrow * Limb)

\* x + y and x - y on floats
FloatAdd(x, y) ==
    IF x.neg = y.neg THEN MagnitudeSum(x.neg, x, y)
    ELSE IF MagnitudeLess(x, y) THEN MagnitudeDifference(y.neg, y, x)
    ELSE MagnitudeDifference(x.neg, x, y)
FloatSub(x, y) == FloatAdd(x, [y EXCEPT !.neg = ~y.neg])

\* a currency is the text given, a sequence of characters
UpperCase ==
    {"A", "B", "C", "D", "E", "F", "G", "H", "I", "J", "K", "L", "M",
     "N", "O", "P", "Q", "R", "S", "T", "U", "V", "W", "X", "Y", "Z"}

\* pattern=r"^[A-Z]{3}$"
IsCurrencyCode(text) == Len(text) = 3 /\ \A i \in DOMAIN text : text[i] \in UpperCase

\* the arguments Money(...) is tried with
Amounts == {Float(0), Float(1), TwoTo53, Float(-1)}
CurrencyTexts == {<<"U", "S", "D">>, <<"E", "U", "R">>, <<"u", "s", "d">>}

NoMoneyValue == [amount |-> Float(0), currency |-> <<>>]

\* Money(amount=..., currency=...): the value, or the ValidationError
\* (a ValueError) of the field constraints ge=0 and pattern
Money(amount, currency) ==
    IF AtLeastZero(amount) /\ IsCurrencyCode(currency)
      THEN [raised |-> "none", value |-> [amount |-> amount, currency |-> currency]]
      ELSE [raised |-> "ValidationError", value |-> NoMoneyValue]

Money_add(self, other) ==
    IF self.currency # other.currency
      THEN [raised |-> "ValueError", value |-> NoMoneyValue]
      ELSE Money(FloatAdd(self.amount, other.amount), self.currency)

Money_subtract(self, other) ==
    IF self.currency # other.currency
      THEN [raised |-> "ValueError", value |-> NoMoneyValue]
    ELSE IF FloatLess(self.amount, other.amount)
      THEN [raised |-> "ValueError", value |-> NoMoneyValue]
    ELSE Money(FloatSub(self.amount, other.amount), self.currency)

MaxMoneys == 4

MoneyInit ==
    /\ moneys = <<>>
    /\ paid = [op |-> "none", left |-> 0, right |-> 0, raised |-> "none"]
    /\ NoBuilder /\ NoTraffic
    /\ NoCli /\ NoResult /\ NoEntity /\ NoRange /\ NoEnv

\* what a call leaves behind: the value made, with the call that made it
Made(op, left, right, outcome) ==
    /\ paid' = [op |-> op, left |-> left, right |-> right, raised |-> outcome.raised]
    /\ moneys' = IF outcome.raised = "none"
                   THEN Append(moneys, [amount |-> outcome.value.amount,
                                        currency |-> outcome.value.currency,
                                        op |-> op, left |-> left, right |-> right])
                   ELSE moneys
    /\ UNCHANGED <<builderVars, httpVars, cliVars, resultVars, entityVars, rangeVars, envVars>>

new_money(amount, currency) ==
    /\ Len(moneys) < MaxMoneys
    /\ Made("Money", 0, 0, Money(amount, currency))

add(i, j) ==
    /\ Len(moneys) < MaxMoneys
    /\ Made("add", i, j, Money_add(moneys[i], moneys[j]))

subtract(i, j) ==
    /\ Len(moneys) < MaxMoneys
    /\ Made("subtract", i, j, Money_subtract(moneys[i], moneys[j]))

MoneyNext ==
    \/ \E amount \in Amounts, currency \in CurrencyTexts : new_money(amount, currency)
    \/ \E i, j \in DOMAIN moneys : add(i, j)
    \/ \E i, j \in DOMAIN moneys : subtract(i, j)

SpecMoney == MoneyInit /\ [][MoneyNext]_vars

\* m was made by a.add(b).subtract(b): the amount of that a
RoundTrips ==
    {m \in DOMAIN moneys :
        /\ moneys[m].op = "subtract"
        /\ moneys[moneys[m].left].op = "add"
        /\ moneys[moneys[m].left].right = moneys[m].right}
StartOf(m) == moneys[moneys[moneys[m].left].left]

\* C25 (as claimed): every Money made has amount >= 0 and a currency code;
\* add and subtract raise ValueError and make nothing when the currencies
\* differ, subtract raises ValueError when the result would be negative,
\* otherwise the value made has the operands' currency and the amount
\* a + b (a - b); and a.add(b).subtract(b) has the amount of a, the amounts
\* being integers.
C25_MoneyArithmetic ==
    /\ \A m \in DOMAIN moneys :
         /\ AtLeastZero(moneys[m].amount)
         /\ moneys[m].op \in {"add", "subtract"} =>
              /\ moneys[m].currency = moneys[moneys[m].left].currency
              /\ moneys[m].currency = moneys[moneys[m].right].currency
         /\ moneys[m].op = "add" =>
              moneys[m].amount = FloatAdd(moneys[moneys[m].left].amount, moneys[moneys[m].right].amount)
         /\ moneys[m].op = "subtract" =>
              moneys[m].amount = FloatSub(moneys[moneys[m].left].amount, moneys[moneys[m].right].amount)
    /\ paid.op \in {"add", "subtract"} =>
         /\ moneys[paid.left].currency # moneys[paid.right].currency => paid.raised = "ValueError"
         /\ (paid.op = "subtract" /\ FloatLess(moneys[paid.left].amount, moneys[paid.right].amount)) =>
              paid.raised = "ValueError"
         /\ (paid.op = "add" /\ moneys[paid.left].currency = moneys[paid.right].currency) =>
              paid.raised = "none"
         /\ (paid.op = "subtract" /\ moneys[paid.left].currency = moneys[paid.right].currency
               /\ ~FloatLess(moneys[paid.left].amount, moneys[paid.right].amount)) =>
              paid.raised = "none"
    /\ \A m \in RoundTrips : moneys[m].amount = StartOf(m).amount

-----------------------------------------------------------------------------
(* The base models (domain/base_models.py): instances of the classes, with *)
(* attribute assignment as pydantic performs it under each class's         *)
(* model_config, and AggregateRoot.increment_version.                      *)

\* field values: a type, and a text or a number
StrValue(s) == [k |-> "str", s |-> s, n |-> 0]
IntValue(n) == [k |-> "int", s |-> "", n |-> n]
FloatValue(n) == [k |-> "float", s |-> "", n |-> n]
BoolValue(s) == [k |-> "bool", s |-> s, n |-> 0]
DateTimeValue(n) == [k |-> "datetime", s |-> "", n |-> n]
DictValue(s) == [k |-> "dict", s |-> s, n |-> 0]
NoneValue == [k |-> "NoneType", s |-> "None", n |-> 0]

\* the base of each class whose instances are tried
BaseOf ==
    [AggregateRoot |-> "DomainEntity",
     DomainEvent |-> "ImmutableEntity",
     Money |-> "ValueObject",
     Success |-> "Success",
     Error |-> "Error"]

\* bases none of which was declared frozen
model_config_thawed(base) == [frozen |-> FALSE, validate_assignment |-> TRUE, strict |-> TRUE]

\* model_config of the five bases (extra="forbid" in all of them)
model_config(base) ==
    CASE base = "DomainEntity" -> [frozen |-> FALSE, validate_assignment |-> TRUE, strict |-> TRUE]
      [] base = "ImmutableEntity" -> [frozen |-> TRUE, validate_assignment |-> TRUE, strict |-> TRUE]
      [] base = "ValueObject" -> [frozen |-> TRUE, validate_assignment |-> TRUE, strict |-> TRUE]
      [] base = "Success" -> [frozen |-> TRUE, validate_assignment |-> FALSE, strict |-> FALSE]
      [] base = "Error" -> [frozen |-> TRUE, validate_assignment |-> FALSE, strict |-> FALSE]

\* the declared fields of a class and the types they accept
FieldTypes(cls) ==
    CASE cls = "AggregateRoot" ->
           [id |-> {"str"}, version |-> {"int"}, created_at |-> {"datetime"}, updated_at |-> {"datetime"}]
      [] cls = "DomainEvent" ->
           [event_id |-> {"str"}, aggregate_id |-> {"str"}, event_type |-> {"str"},
            occurred_at |-> {"datetime"}, data |-> {"dict"}]
      [] cls = "Money" -> [amount |-> {"float", "int"}, currency |-> {"str"}]
      [] cls = "Success" -> [success |-> {"bool"}]
      [] cls = "Error" ->
           [success |-> {"bool"}, error_code |-> {"str"}, message |-> {"str"},
            details |-> {"dict", "NoneType"}]

\* the versions an aggregate is made with: the default, or one given
DefaultVersion == 1
GivenVersions == {DefaultVersion, 5}

\* instances as their constructors leave them, made at time 0
Instances ==
    {[cls |-> "AggregateRoot",
      fields |-> [id |-> StrValue("order-1"), version |-> IntValue(v),
                  created_at |-> DateTimeValue(0), updated_at |-> DateTimeValue(0)]] :
        v \in GivenVersions}
    \cup
    {[cls |-> "DomainEvent",
      fields |-> [event_id |-> StrValue("e-1"), aggregate_id |-> StrValue("order-1"),
                  event_type |-> StrValue("OrderSubmitted"),
                  occurred_at |-> DateTimeValue(0), data |-> DictValue("{}")]],
     [cls |-> "Money", fields |-> [amount |-> FloatValue(10), currency |-> StrValue("USD")]],
     [cls |-> "Success", fields |-> [success |-> BoolValue("True")]],
     [cls |-> "Error",
      fields |-> [success |-> BoolValue("False"), error_code |-> StrValue("NOT_FOUND"),
                  message |-> StrValue("not there"), details |-> NoneValue]]}

\* the attribute names and the values assignments are tried with
AttributeNames ==
    {"id", "version", "created_at", "updated_at", "event_type", "data", "amount",
     "currency", "success", "message", "details", "nickname"}
AssignedValues ==
    {StrValue("order-2"), IntValue(0), IntValue(7), DateTimeValue(1), BoolValue("False"),
     DictValue("{'k': 1}"), NoneValue}

\* obj.name = value: BaseModel.__setattr__ under the class's model_config.
\* A frozen class rejects every assignment; otherwise the name must be a
\* declared field (extra="forbid") and the value of the field's type
\* (validate_assignment, strict).
setattr(obj, name, value) ==
    LET config == model_config(BaseOf[obj.cls])
        types == FieldTypes(obj.cls)
    IN IF config.frozen
         THEN [raised |-> "ValidationError", obj |-> obj]
       ELSE IF name \notin DOMAIN types
         THEN [raised |-> "ValidationError", obj |-> obj]
       ELSE IF config.validate_assignment /\ value.k \notin types[name]
         THEN [raised |-> "ValidationError", obj |-> obj]
       ELSE [raised |-> "none", obj |-> [obj EXCEPT !.fields[name] = value]]

\* an increment_version that only touches updated_at
increment_version_touch(self, now) == setattr(self, "updated_at", DateTimeValue(now)).obj

\* self.version += 1; self.updated_at = datetime.now(timezone.utc)
increment_version(self, now) ==
    LET bumped == setattr(self, "version", IntValue(self.fields.version.n + 1)).obj
    IN setattr(bumped, "updated_at", DateTimeValue(now)).obj

MaxCalls == 3

Untouched ==
    [op |-> "__init__", name |-> "", value |-> NoneValue, raised |-> "none",
     calls |-> 0, assigned |-> FALSE]

EntityInit ==
    /\ entity \in Instances
    /\ touched = Untouched
    /\ NoBuilder /\ NoTraffic
    /\ NoCli /\ NoResult /\ NoMoney /\ NoRange /\ NoEnv

\* obj.name = value, by the code that holds the instance
assign(name, value) ==
    LET outcome == setattr(entity, name, value)
    IN /\ entity' = outcome.obj
       /\ touched' = [touched EXCEPT !.op = "setattr", !.name = name, !.value = value,
                                     !.raised = outcome.raised,
                                     !.assigned = @ \/ (name = "version" /\ outcome.raised = "none")]
       /\ UNCHANGED <<builderVars, httpVars, cliVars, resultVars, moneyVars, rangeVars, envVars>>

\* aggregate.increment_version(), the wall clock reading `now`
call_increment_version(now) ==
    /\ entity.cls = "AggregateRoot"
    /\ touched.calls < MaxCalls
    /\ entity' = increment_version(entity, now)
    /\ touched' = [touched EXCEPT !.op = "increment_version", !.name = "", !.value = NoneValue,
                                  !.raised = "none", !.calls = @ + 1]
    /\ UNCHANGED <<builderVars, httpVars, cliVars, resultVars, moneyVars, rangeVars, envVars>>

EntityNext ==
    \/ \E name \in AttributeNames, value \in AssignedValues : assign(name, value)
    \/ \E now \in 0..MaxClock : call_increment_version(now)

SpecEntity == EntityInit /\ [][EntityNext]_vars

IsAggregate == entity.cls = "AggregateRoot"
\* this step is a call of increment_version
Increments == touched'.calls = touched.calls + 1
\* this step is an assignment
Assigns == touched'.op = "setattr" /\ touched'.calls = touched.calls
\* the version the aggregate was made with
FirstVersion(v) == IsAggregate /\ ~touched.assigned /\ entity.fields.version.n = v + touched.calls

\* C26 (as claimed): each increment_version() raises version by exactly 1
\* and leaves id and created_at as they were, so that after n calls on an
\* aggregate made with the default version the version is 1 + n; and no
\* operation on an aggregate ever lowers its version.
C26_VersionNeverDecreases ==
    [][IsAggregate =>
        /\ Increments =>
             /\ entity'.fields.version.n = entity.fields.version.n + 1
             /\ entity'.fields.id = entity.fields.id
             /\ entity'.fields.created_at = entity.fields.created_at
        /\ entity'.fields.version.n >= entity.fields.version.n]_vars

\* C26 (amended): each increment_version() raises version by exactly 1 and
\* leaves id and created_at as they were; after n calls on an aggregate
\* made with the default version and never assigned one, the version is
\* 1 + n; and the version is lowered by no step other than an assignment
\* to the version field, which the class accepts for any int.
C26_IncrementsRaiseByOne ==
    [][IsAggregate =>
        /\ Increments =>
             /\ entity'.fields.version.n = entity.fields.version.n + 1
             /\ entity'.fields.id = entity.fields.id
             /\ entity'.fields.created_at = entity.fields.created_at
        /\ (FirstVersion(DefaultVersion) /\ ~touched'.assigned) =>
             entity'.fields.version.n = DefaultVersion + touched'.calls
        /\ ~(Assigns /\ touched'.name = "version") =>
             entity'.fields.version.n >= entity.fields.version.n]_vars

\* an aggregate made with the default version after its third call, its
\* id and created_at those it was made with
C26_Witness ==
    /\ IsAggregate
    /\ touched.op = "increment_version" /\ touched.calls = 3 /\ ~touched.assigned
    /\ entity.fields.version.n = 4
    /\ entity.fields.id = StrValue("order-1")
    /\ entity.fields.updated_at # entity.fields.created_at

IsFrozen(cls) == BaseOf[cls] \in {"ImmutableEntity", "ValueObject", "Success", "Error"}

\* the value is one the field of the class accepts
ValidFor(cls, name, value) == name \in DOMAIN FieldTypes(cls) /\ value.k \in FieldTypes(cls)[name]

\* C27: an assignment to an attribute of an instance of a frozen class is
\* rejected with an error and the instance keeps every field; an
\* assignment of a valid value to a field of an AggregateRoot (a
\* DomainEntity) succeeds: the field has the value and the others are kept.
C27_FrozenRejectsAssignment ==
    [][Assigns =>
        /\ IsFrozen(entity.cls) =>
             /\ touched'.raised # "none"
             /\ entity' = entity
        /\ (~IsFrozen(entity.cls) /\ ValidFor(entity.cls, touched'.name, touched'.value)) =>
             /\ touched'.raised = "none"
             /\ entity'.fields[touched'.name] = touched'.value
             /\ \A f \in DOMAIN entity.fields \ {touched'.name} :
                    entity'.fields[f] = entity.fields[f]
             /\ DOMAIN entity'.fields = DOMAIN entity.fields
             /\ entity'.cls = entity.cls]_vars

\* an assignment to currency of a Money has been rejected
C27_Witness ==
    /\ entity.cls = "Money"
    /\ touched.op = "setattr" /\ touched.name = "currency" /\ touched.value = StrValue("order-2")
    /\ touched.raised = "ValidationError"
    /\ entity.fields.currency = StrValue("USD")

-----------------------------------------------------------------------------
(* DateRange (domain/base_models.py, the same in both packages). An        *)
(* instant is a datetime, here a point on a line of equally spaced points; *)
(* the class has no validator, so a range can end before it starts.        *)

MaxInstant == 3
Instants == 0..MaxInstant

DateRange(start_date, end_date) == [start_date |-> start_date, end_date |-> end_date]

\* self.start_date <= date <= self.end_date
DateRange_contains(self, date) == self.start_date <= date /\ date <= self.end_date

\* an overlaps that leaves out ranges which only touch
DateRange_overlaps_open(self, other) ==
    ~(self.end_date <= other.start_date \/ self.start_date >= other.end_date)

\* not (self.end_date < other.start_date or self.start_date > other.end_date)
DateRange_overlaps(self, other) ==
    ~(self.end_date < other.start_date \/ self.start_date > other.end_date)

NotAsked == [op |-> "none", of |-> 0, date |-> 0, answer |-> FALSE, reverse |-> FALSE]

RangeInit ==
    /\ ranges \in {<<DateRange(s1, e1), DateRange(s2, e2)>> : s1, e1, s2, e2 \in Instants}
    /\ asked = NotAsked
    /\ NoBuilder /\ NoTraffic
    /\ NoCli /\ NoResult /\ NoMoney /\ NoEntity /\ NoEnv

\* a.overlaps(b) and b.overlaps(a)
overlaps ==
    /\ asked' = [op |-> "overlaps", of |-> 0, date |-> 0,
                 answer |-> DateRange_overlaps(ranges[1], ranges[2]),
                 reverse |-> DateRange_overlaps(ranges[2], ranges[1])]
    /\ UNCHANGED ranges
    /\ UNCHANGED <<builderVars, httpVars, cliVars, resultVars, moneyVars, entityVars, envVars>>

\* a.contains(date) or b.contains(date)
contains(of, date) ==
    /\ asked' = [op |-> "contains", of |-> of, date |-> date,
                 answer |-> DateRange_contains(ranges[of], date),
                 reverse |-> FALSE]
    /\ UNCHANGED ranges
    /\ UNCHANGED <<builderVars, httpVars, cliVars, resultVars, moneyVars, entityVars, envVars>>

RangeNext ==
    \/ overlaps
    \/ \E of \in {1, 2}, date \in Instants : contains(of, date)

SpecRange == RangeInit /\ [][RangeNext]_vars

\* the range does not end before it starts
WellFormed(r) == r.start_date <= r.end_date

\* some instant lies in both ranges
Shared == {d \in Instants : DateRange_contains(ranges[1], d) /\ DateRange_contains(ranges[2], d)}

\* C28: for two ranges neither of which ends before it starts, a.overlaps(b)
\* is true exactly when some instant is contained in both, the endpoints
\* counting as contained, and a.overlaps(b) = b.overlaps(a).
C28_OverlapsIsSharedInstant ==
    (WellFormed(ranges[1]) /\ WellFormed(ranges[2]) /\ asked.op = "overlaps") =>
        /\ asked.answer = (Shared # {})
        /\ asked.answer = asked.reverse

\* a ends at the instant b starts, both last longer than an instant, and
\* overlaps was answered true
C28_Witness ==
    /\ asked.op = "overlaps" /\ asked.answer
    /\ ranges[1].start_date < ranges[1].end_date
    /\ ranges[1].end_date = ranges[2].start_date
    /\ ranges[2].start_date < ranges[2].end_date

-----------------------------------------------------------------------------
(* The environment the health endpoint reports. *)

\* C29: the environment field of every /health response is "development",
\* whatever environment the application was created for.
C29_HealthReportsDevelopment ==
    \A i \in Health : served[i].body.environment = "development"

\* an application created for production has answered /health, and one
\* cannot tell from the answer
C29_Witness ==
    /\ environment = "production"
    /\ app = create_app("production")
    /\ \E i \in Health : served[i].body.environment = "development"

-----------------------------------------------------------------------------
(* The mock_env_vars fixture (tests/conftest.py). os.environ is a mapping  *)
(* from names to texts; the fixture copies it, hands the test _set_env,    *)
(* and after the test clears the mapping and updates it from the copy.     *)

\* the environments a test process starts with
EnvNames == {"HOME", "DEBUG"}
EnvTexts == {"/root", "1"}
StartEnvironments == UNION {[names -> EnvTexts] : names \in SUBSET EnvNames}

\* the keyword arguments of a _set_env call, in the order given: a name and
\* a value each, no name twice
KwargNames == {"DEBUG", "API_KEY", "A=B"}
KwargValues == {PyInt("1"), PyBool("True"), PyStr("secret")}
Kwargs ==
    {<<[key |-> k, value |-> v]>> : k \in KwargNames, v \in KwargValues}
    \cup {kwargs \in {<<[key |-> k1, value |-> PyInt("1")], [key |-> k2, value |-> v2]>> :
                        k1 \in KwargNames, k2 \in KwargNames, v2 \in KwargValues} :
            kwargs[1].key # kwargs[2].key}

\* os.environ[key] = text is refused for a name that holds "="
IsLegalName(key) == key # "A=B"

\* os.environ.clear()
clear(env) == [key \in {} |-> ""]

\* os.environ.update(other)
update(env, other) ==
    [key \in (DOMAIN env) \cup (DOMAIN other) |-> IF key \in DOMAIN other THEN other[key] ELSE env[key]]

\* for key, value in kwargs.items(): os.environ[key] = str(value)
\* -- up to the first name os.environ refuses, where ValueError is raised
RECURSIVE SetEach(_, _)
SetEach(env, kwargs) ==
    IF kwargs = <<>> THEN [raised |-> "none", env |-> env]
    ELSE IF ~IsLegalName(Head(kwargs).key) THEN [raised |-> "ValueError", env |-> env]
    ELSE SetEach(update(env, [key \in {Head(kwargs).key} |-> FormatStr(Head(kwargs).value)]),
                 Tail(kwargs))

\* a teardown that puts the copy back without clearing first
Restore_update_only(env, original_env) == update(env, original_env)

\* os.environ.clear(); os.environ.update(original_env)
Restore(env, original_env) == update(clear(env), original_env)

MaxSets == 2

EnvInit ==
    /\ environ \in StartEnvironments
    /\ fixture = [pc |-> "requested", original_env |-> clear(environ), at_setup |-> clear(environ),
                  sets |-> 0, names |-> {}, raised |-> "none"]
    /\ NoBuilder /\ NoTraffic
    /\ NoCli /\ NoResult /\ NoMoney /\ NoEntity /\ NoRange

\* the fixture up to its yield
setup ==
    /\ fixture.pc = "requested"
    /\ fixture' = [fixture EXCEPT !.pc = "yielded", !.original_env = environ, !.at_setup = environ]
    /\ UNCHANGED environ
    /\ UNCHANGED <<builderVars, httpVars, cliVars, resultVars, moneyVars, entityVars, rangeVars>>

\* the test calls _set_env(**kwargs)
_set_env(kwargs) ==
    /\ fixture.pc = "yielded"
    /\ fixture.sets < MaxSets
    /\ LET outcome == SetEach(environ, kwargs)
       IN /\ environ' = outcome.env
          /\ fixture' = [fixture EXCEPT !.sets = @ + 1, !.raised = outcome.raised,
                                        !.names = @ \cup {kwargs[i].key : i \in DOMAIN kwargs}]
    /\ UNCHANGED <<builderVars, httpVars, cliVars, resultVars, moneyVars, entityVars, rangeVars>>

\* the fixture after its yield, run when the test has ended (passed or not)
teardown ==
    /\ fixture.pc = "yielded"
    /\ environ' = Restore(environ, fixture.original_env)
    /\ fixture' = [fixture EXCEPT !.pc = "finished"]
    /\ UNCHANGED <<builderVars, httpVars, cliVars, resultVars, moneyVars, entityVars, rangeVars>>

EnvNext ==
    \/ setup
    \/ \E kwargs \in Kwargs : _set_env(kwargs)
    \/ teardown

SpecEnv == EnvInit /\ [][EnvNext]_vars

\* C30: after the fixture's teardown os.environ is the mapping it was at
\* setup: the same names with the same texts, whatever the _set_env calls
\* of the test added or overwrote.
C30_EnvironmentRestored ==
    fixture.pc = "finished" =>
        /\ DOMAIN environ = DOMAIN fixture.at_setup
        /\ \A key \in DOMAIN environ : environ[key] = fixture.at_setup[key]

\* a test that overwrote DEBUG and added API_KEY has ended
C30_Witness ==
    /\ fixture.pc = "finished"
    /\ {"DEBUG", "API_KEY"} \subseteq fixture.names
    /\ "DEBUG" \in DOMAIN environ /\ environ["DEBUG"] = "/root"
    /\ "API_KEY" \notin DOMAIN environ
    /\ fixture.raised = "none"

====
